---- MODULE Spec2Model ----
(***************************************************************************)
(* A model of aws_toolkit.core.config.Config: the configuration tree built *)
(* from the process environment, an optional .env file and an optional     *)
(* YAML file, with dot-path get/set, the deep merge, the aws_config view   *)
(* and to_dict; and of the S3Manager and EC2Manager operations that read   *)
(* the configuration and forward to the SDK client.                        *)
(*                                                                         *)
(* Python values are tagged records, so that values of different Python    *)
(* types are comparable and never equal.  A str used as a dictionary key   *)
(* or as a dot-path is a sequence of symbols, the symbol "." being the     *)
(* separator str.split(".") cuts at; every other symbol stands for a       *)
(* non-empty dot-free piece of text.                                       *)
(***************************************************************************)
EXTENDS Integers, Sequences, FiniteSets, TLC

VARIABLES pc, env, dotenv, file, config, before, last, writes,
          config_dict, shared, clients, sdk, bucket, loggers

vars == <<pc, env, dotenv, file, config, before, last, writes,
          config_dict, shared, clients, sdk, bucket, loggers>>

\* pc      where the Config object is: "start" before Config(...) is called,
\*         "ready" once it returned, "failed" once it raised
\* env     os.environ
\* dotenv  the file .env of the working directory
\* file    the config_file argument and what it names
\* config  self._config
\* before  self._config as it was when the last call began
\* last    the last call on the object and how it ended
\* writes  the number of calls so far that write self._config
\* config_dict  the dict the last to_dict() returned, as its holder sees it
\*         now; None before the first call
\* shared  the keys of config_dict whose value is the very object self._config
\*         holds at that key
\* clients the managers built on the Config object, each with the keyword
\*         arguments its boto3 client was made with
\* sdk     the calls the last manager operation made on boto3 and its client
\* bucket  the S3 bucket the object operations are called on: whether it
\*         exists, its objects in key order, and its objects as they were
\*         when the last call began
\* loggers the loggers logging.getLogger has made, by name, each with its
\*         level and its handlers

----------------------------------------------------------------------------
(* Bounds of the model.                                                    *)

\* longest dot-path, in segments, that get and set are called with
MaxSegs == 3
\* number of calls that write the tree (set, _merge_config) after construction
MaxWrites == 1

----------------------------------------------------------------------------
(* Python values.                                                          *)

PyNone == [t |-> "none"]
PyStr(s) == [t |-> "str", s |-> s]
PyInt(i) == [t |-> "int", i |-> i]
PyBool(b) == [t |-> "bool", b |-> b]
PyList(items) == [t |-> "list", items |-> items]
PyDict(m) == [t |-> "dict", m |-> m]

\* the dict literal {}
EmptyDict == PyDict(<<>>)

\* isinstance(v, dict)
IsDict(v) == v.t = "dict"

\* bool(v), as an if statement computes it
Truthy(v) ==
    CASE v.t = "none" -> FALSE
      [] v.t = "str" -> v.s # ""
      [] v.t = "int" -> v.i # 0
      [] v.t = "bool" -> v.b
      [] v.t = "list" -> v.items # <<>>
      [] v.t = "dict" -> DOMAIN v.m # {}

\* d[k] = v on the dict with items m
Put(m, k, v) == [x \in (DOMAIN m) \cup {k} |-> IF x = k THEN v ELSE m[x]]

\* a str key made of one symbol
K(name) == <<name>>

\* the dict with the one item k: v
One(k, v) == PyDict([x \in {K(k)} |-> v])

----------------------------------------------------------------------------
(* Exceptions.                                                             *)

NoExc == [type |-> "none", msg |-> "", arg |-> ""]
Exc(type, msg, arg) == [type |-> type, msg |-> msg, arg |-> arg]

----------------------------------------------------------------------------
(* str.split(".") and its inverse ".".join                                 *)

Dot == "."

RECURSIVE SplitFrom(_, _, _)
\* cur is the segment being read, acc the segments already closed
SplitFrom(s, cur, acc) ==
    IF s = <<>> THEN Append(acc, cur)
    ELSE IF Head(s) = Dot THEN SplitFrom(Tail(s), <<>>, Append(acc, cur))
    ELSE SplitFrom(Tail(s), Append(cur, Head(s)), acc)

Split(s) == SplitFrom(s, <<>>, <<>>)

RECURSIVE Join(_)
Join(segs) ==
    IF Len(segs) = 1 THEN segs[1]
    ELSE segs[1] \o <<Dot>> \o Join(Tail(segs))

----------------------------------------------------------------------------
(* Config.get, Config.set and Config._merge_config on values.              *)

RECURSIVE GetFromStopsAtScalar(_, _, _)
\* Config.get that leaves the loop with `break` where the value reached is
\* no dict, and so returns that value
GetFromStopsAtScalar(value, keys, default) ==
    IF keys = <<>> THEN value
    ELSE IF ~IsDict(value) THEN value
    ELSE IF Head(keys) \in DOMAIN value.m
         THEN GetFromStopsAtScalar(value.m[Head(keys)], Tail(keys), default)
         ELSE default

RECURSIVE GetFromDefaultsNone(_, _, _)
\* Config.get that ends with `return value if value is not None else default`
GetFromDefaultsNone(value, keys, default) ==
    IF keys = <<>> THEN (IF value = PyNone THEN default ELSE value)
    ELSE IF IsDict(value) /\ Head(keys) \in DOMAIN value.m
         THEN GetFromDefaultsNone(value.m[Head(keys)], Tail(keys), default)
         ELSE default

RECURSIVE GetFrom(_, _, _)
\* the loop of Config.get: value is the value reached, keys the segments left
GetFrom(value, keys, default) ==
    IF keys = <<>> THEN value
    ELSE IF IsDict(value) /\ Head(keys) \in DOMAIN value.m
         THEN GetFrom(value.m[Head(keys)], Tail(keys), default)
         ELSE default

\* Config.get that forgets the caller's default: `return None` at a miss
ConfigGetNoDefault(tree, key, default) == GetFrom(tree, Split(key), PyNone)

\* Config.get(key, default) on the tree
ConfigGet(tree, key, default) == GetFrom(tree, Split(key), default)

\* what a subscript or membership test on a value that is no dict raises:
\* None, int and bool fail at `k not in config`; a str or list passes or
\* fails that test and then fails at config[k] = ... or config[k]
NotSubscriptable(v) == Exc("TypeError", "not subscriptable", v.t)

RECURSIVE SetInMerging(_, _, _)
\* Config.set that updates a dict already at the final segment with the
\* items of a dict value instead of assigning the value
SetInMerging(cfg, keys, value) ==
    IF ~IsDict(cfg) THEN [obj |-> cfg, exc |-> NotSubscriptable(cfg)]
    ELSE IF Len(keys) = 1
         THEN IF IsDict(value) /\ keys[1] \in DOMAIN cfg.m /\ IsDict(cfg.m[keys[1]])
              THEN [obj |-> PyDict(Put(cfg.m, keys[1],
                                 PyDict(value.m @@ cfg.m[keys[1]].m))),
                    exc |-> NoExc]
              ELSE [obj |-> PyDict(Put(cfg.m, keys[1], value)), exc |-> NoExc]
    ELSE LET k == Head(keys)
             made == IF k \notin DOMAIN cfg.m
                     THEN Put(cfg.m, k, EmptyDict)
                     ELSE cfg.m
             sub == SetInMerging(made[k], Tail(keys), value)
         IN  [obj |-> PyDict(Put(made, k, sub.obj)), exc |-> sub.exc]

RECURSIVE SetInFresh(_, _, _)
\* Config.set whose loop runs `config[k] = {}` for every segment before the
\* last, whether the key is there or not
SetInFresh(cfg, keys, value) ==
    IF ~IsDict(cfg) THEN [obj |-> cfg, exc |-> NotSubscriptable(cfg)]
    ELSE IF Len(keys) = 1
         THEN [obj |-> PyDict(Put(cfg.m, keys[1], value)), exc |-> NoExc]
    ELSE LET sub == SetInFresh(EmptyDict, Tail(keys), value)
         IN  [obj |-> PyDict(Put(cfg.m, Head(keys), sub.obj)), exc |-> sub.exc]

RECURSIVE SetInClobbers(_, _, _)
\* Config.set that puts a dict in the place of a value that is no dict
\* before it raises
SetInClobbers(cfg, keys, value) ==
    IF ~IsDict(cfg) THEN [obj |-> EmptyDict, exc |-> NotSubscriptable(cfg)]
    ELSE IF Len(keys) = 1
         THEN [obj |-> PyDict(Put(cfg.m, keys[1], value)), exc |-> NoExc]
    ELSE LET k == Head(keys)
             made == IF k \notin DOMAIN cfg.m
                     THEN Put(cfg.m, k, EmptyDict)
                     ELSE cfg.m
             sub == SetInClobbers(made[k], Tail(keys), value)
         IN  [obj |-> PyDict(Put(made, k, sub.obj)), exc |-> sub.exc]

RECURSIVE SetIn(_, _, _)
\* the loop and the final assignment of Config.set on the object `cfg`:
\* the object as the call leaves it, and the exception raised if any.
\* An empty dict created on the way stays in the object when a later
\* step raises.
SetIn(cfg, keys, value) ==
    IF ~IsDict(cfg) THEN [obj |-> cfg, exc |-> NotSubscriptable(cfg)]
    ELSE IF Len(keys) = 1
         THEN [obj |-> PyDict(Put(cfg.m, keys[1], value)), exc |-> NoExc]
    ELSE LET k == Head(keys)
             made == IF k \notin DOMAIN cfg.m
                     THEN Put(cfg.m, k, EmptyDict)
                     ELSE cfg.m
             sub == SetIn(made[k], Tail(keys), value)
         IN  [obj |-> PyDict(Put(made, k, sub.obj)), exc |-> sub.exc]

\* Config.set(key, value) on the tree
ConfigSet(tree, key, value) == SetIn(tree, Split(key), value)

RECURSIVE MergeItemsShallow(_, _, _)
\* a merge that is dict.update: the overlay's value replaces the base's at
\* every key, two dicts included
MergeItemsShallow(base, overlay, keys) ==
    IF keys = {} THEN base
    ELSE LET key == CHOOSE k \in keys : TRUE
         IN  MergeItemsShallow(Put(base, key, overlay[key]), overlay, keys \ {key})

RECURSIVE MergeItemsKeepsDict(_, _, _)
\* a merge that tests the base alone before it recurses, and so keeps a dict
\* of the base where the overlay holds a value that is no dict
MergeItemsKeepsDict(base, overlay, keys) ==
    IF keys = {} THEN base
    ELSE LET key == CHOOSE k \in keys : TRUE
             value == overlay[key]
             merged ==
                 IF key \in DOMAIN base /\ IsDict(base[key])
                 THEN IF IsDict(value)
                      THEN Put(base, key,
                               PyDict(MergeItemsKeepsDict(base[key].m, value.m,
                                                          DOMAIN value.m)))
                      ELSE base
                 ELSE Put(base, key, value)
         IN  MergeItemsKeepsDict(merged, overlay, keys \ {key})

RECURSIVE MergeItems(_, _, _)
\* the loop of Config._merge_config over the overlay's items still to visit;
\* base and overlay are the items of two dicts
MergeItems(base, overlay, keys) ==
    IF keys = {} THEN base
    ELSE LET key == CHOOSE k \in keys : TRUE
             value == overlay[key]
             merged ==
                 IF IsDict(value) /\ key \in DOMAIN base /\ IsDict(base[key])
                 THEN Put(base, key,
                          PyDict(MergeItems(base[key].m, value.m, DOMAIN value.m)))
                 ELSE Put(base, key, value)
         IN  MergeItems(merged, overlay, keys \ {key})

RECURSIVE MergeArgsSwapped(_, _, _)
\* a merge whose recursive call has its arguments the other way round,
\* _merge_config(value, base[key]), and so writes into the overlay's dict
MergeArgsSwapped(base, overlay, keys) ==
    IF keys = {} THEN [base |-> base, overlay |-> overlay]
    ELSE LET key == CHOOSE k \in keys : TRUE
             value == overlay[key]
         IN  IF IsDict(value) /\ key \in DOMAIN base /\ IsDict(base[key])
             THEN LET sub == MergeArgsSwapped(value.m, base[key].m, DOMAIN base[key].m)
                  IN  MergeArgsSwapped(Put(base, key, PyDict(sub.overlay)),
                                       Put(overlay, key, PyDict(sub.base)),
                                       keys \ {key})
             ELSE MergeArgsSwapped(Put(base, key, value), overlay, keys \ {key})

RECURSIVE MergeArgs(_, _, _)
\* the two arguments of Config._merge_config as its loop leaves them, keys
\* being the overlay's items still to visit: the recursive call is given the
\* dict of the base and the dict of the overlay at the key, the assignment
\* writes the base
MergeArgs(base, overlay, keys) ==
    IF keys = {} THEN [base |-> base, overlay |-> overlay]
    ELSE LET key == CHOOSE k \in keys : TRUE
             value == overlay[key]
         IN  IF IsDict(value) /\ key \in DOMAIN base /\ IsDict(base[key])
             THEN LET sub == MergeArgs(base[key].m, value.m, DOMAIN value.m)
                  IN  MergeArgs(Put(base, key, PyDict(sub.base)),
                                Put(overlay, key, PyDict(sub.overlay)),
                                keys \ {key})
             ELSE MergeArgs(Put(base, key, value), overlay, keys \ {key})

\* the overlay as Config._merge_config(base, overlay) leaves it
MergeLeaves(base, overlay) ==
    IF ~IsDict(overlay) THEN overlay
    ELSE PyDict(MergeArgs(base.m, overlay.m, DOMAIN overlay.m).overlay)

\* Config._merge_config(base, overlay): base as the call leaves it and the
\* exception raised; overlay.items() exists on a dict only
MergeConfig(base, overlay) ==
    IF ~IsDict(overlay)
    THEN [obj |-> base, exc |-> Exc("AttributeError", "no attribute items", overlay.t)]
    ELSE [obj |-> PyDict(MergeItems(base.m, overlay.m, DOMAIN overlay.m)),
          exc |-> NoExc]

----------------------------------------------------------------------------
(* The process environment, the .env file and the conversions applied to   *)
(* environment text.                                                       *)

EnvVars ==
    {"AWS_ACCESS_KEY_ID", "AWS_SECRET_ACCESS_KEY", "AWS_SESSION_TOKEN",
     "AWS_DEFAULT_REGION", "AWS_PROFILE", "LOG_LEVEL", "DEBUG",
     "S3_BUCKET_PREFIX", "S3_ENCRYPTION", "EC2_KEY_PAIR_NAME",
     "EC2_SECURITY_GROUP", "LAMBDA_TIMEOUT", "LAMBDA_MEMORY_SIZE"}

\* os.environ: a variable holds <<>> when unset and <<text>> when set
Unset == <<>>
NoEnv == [v \in EnvVars |-> Unset]

\* os.getenv(name, default) and os.getenv(name)
Getenv(e, name, default) == IF e[name] = Unset THEN default ELSE e[name][1]

\* an os.getenv(name) that gives the empty str for a variable that is unset
GetenvOrEmpty(e, name) == IF e[name] = Unset THEN PyStr("") ELSE PyStr(e[name][1])
GetenvOrNone(e, name) == IF e[name] = Unset THEN PyNone ELSE PyStr(e[name][1])

\* load_dotenv(env_file): a variable of the file is set in os.environ unless
\* the environment has it already (override is off)
LoadDotenv(e, assigns) ==
    [v \in EnvVars |-> IF e[v] = Unset /\ v \in DOMAIN assigns
                       THEN <<assigns[v]>> ELSE e[v]]

\* a comparison of DEBUG with 'true' that minds the case
LowerKeepsCase(s) == s
\* str.lower() on the texts the model uses
Lower(s) ==
    CASE s \in {"TRUE", "True", "tRuE"} -> "true"
      [] s \in {"FALSE", "False"} -> "false"
      [] s = "YES" -> "yes"
      [] OTHER -> s

\* the texts int() accepts, with their values; any other text raises
IntLiterals ==
    ("30" :> 30) @@ ("128" :> 128) @@ ("60" :> 60) @@ (" 256 " :> 256) @@
    ("0" :> 0) @@ ("-1" :> (0 - 1))

\* int(text): the value and the exception raised if any
IntOf(text) ==
    IF text \in DOMAIN IntLiterals
    THEN [val |-> PyInt(IntLiterals[text]), exc |-> NoExc]
    ELSE [val |-> PyNone,
          exc |-> Exc("ValueError", "invalid literal for int() with base 10: ", text)]

\* the dict literal of Config._load_env_vars, its two int() calls given
EnvTree(e, timeout, memory) ==
    PyDict(
      (K("aws") :> PyDict(
          (K("access_key_id") :> GetenvOrNone(e, "AWS_ACCESS_KEY_ID")) @@
          (K("secret_access_key") :> GetenvOrNone(e, "AWS_SECRET_ACCESS_KEY")) @@
          (K("session_token") :> GetenvOrNone(e, "AWS_SESSION_TOKEN")) @@
          (K("region") :> PyStr(Getenv(e, "AWS_DEFAULT_REGION", "us-east-1"))) @@
          (K("profile") :> GetenvOrNone(e, "AWS_PROFILE")))) @@
      (K("app") :> PyDict(
          (K("log_level") :> PyStr(Getenv(e, "LOG_LEVEL", "INFO"))) @@
          (K("debug") :> PyBool(Lower(Getenv(e, "DEBUG", "false")) = "true")))) @@
      (K("s3") :> PyDict(
          (K("bucket_prefix") :> PyStr(Getenv(e, "S3_BUCKET_PREFIX", "aws-toolkit-"))) @@
          (K("encryption") :> PyStr(Getenv(e, "S3_ENCRYPTION", "AES256"))))) @@
      (K("ec2") :> PyDict(
          (K("key_pair_name") :> PyStr(Getenv(e, "EC2_KEY_PAIR_NAME", "aws-toolkit-keypair"))) @@
          (K("security_group") :> PyStr(Getenv(e, "EC2_SECURITY_GROUP", "aws-toolkit-sg"))))) @@
      (K("lambda") :> PyDict(
          (K("timeout") :> timeout) @@
          (K("memory_size") :> memory))))

\* Config._load_env_vars on the empty tree: os.environ and self._config as
\* the call leaves them, and the exception raised if any.  The dict literal
\* is evaluated before update() is called, so a failing int() leaves
\* self._config empty.
LoadEnvVars(e, dot) ==
    LET e1 == IF dot.exists THEN LoadDotenv(e, dot.assigns) ELSE e
        timeout == IntOf(Getenv(e1, "LAMBDA_TIMEOUT", "30"))
        memory == IntOf(Getenv(e1, "LAMBDA_MEMORY_SIZE", "128"))
    IN  IF timeout.exc # NoExc
        THEN [env |-> e1, config |-> EmptyDict, exc |-> timeout.exc]
        ELSE IF memory.exc # NoExc
        THEN [env |-> e1, config |-> EmptyDict, exc |-> memory.exc]
        ELSE [env |-> e1, config |-> EnvTree(e1, timeout.val, memory.val),
              exc |-> NoExc]

----------------------------------------------------------------------------
(* The configuration file.                                                 *)

\* config_file is None
NoFile == [kind |-> "none", doc |-> PyNone, diag |-> ""]
\* config_file is the empty str
EmptyPath == [kind |-> "emptypath", doc |-> PyNone, diag |-> ""]
\* open() raises FileNotFoundError
MissingFile == [kind |-> "missing", doc |-> PyNone, diag |-> ""]
\* open() raises PermissionError
DeniedFile == [kind |-> "denied", doc |-> PyNone, diag |-> ""]
\* yaml.safe_load raises a YAMLError with the diagnostic diag
InvalidFile(diag) == [kind |-> "invalid", doc |-> PyNone, diag |-> diag]
\* yaml.safe_load returns doc
YamlFile(doc) == [kind |-> "yaml", doc |-> doc, diag |-> ""]

\* Config._load_config_file(config_file) on the tree
LoadConfigFile(tree, f) ==
    CASE f.kind = "missing" -> [obj |-> tree, exc |-> NoExc]
      [] f.kind = "denied" ->
            [obj |-> tree, exc |-> Exc("PermissionError", "Permission denied", "")]
      [] f.kind = "invalid" ->
            [obj |-> tree,
             exc |-> Exc("ValueError", "Invalid YAML in config file: ", f.diag)]
      [] OTHER -> MergeConfig(tree, f.doc)

\* a constructor that reads the file first and the environment after it, so
\* that the sections of _load_env_vars replace the file's
ConfigInitEnvLast(e, dot, f) ==
    LET loaded == LoadEnvVars(e, dot)
    IN  IF loaded.exc # NoExc THEN loaded
        ELSE IF f.kind \in {"none", "emptypath"} THEN loaded
        ELSE LET merged == LoadConfigFile(EmptyDict, f)
             IN  [env |-> loaded.env,
                  config |-> IF merged.exc = NoExc
                             THEN PyDict(loaded.config.m @@ merged.obj.m)
                             ELSE loaded.config,
                  exc |-> merged.exc]

\* Config.__init__(config_file): os.environ and self._config as the call
\* leaves them, and the exception raised if any
ConfigInit(e, dot, f) ==
    LET loaded == LoadEnvVars(e, dot)
    IN  IF loaded.exc # NoExc THEN loaded
        ELSE IF f.kind \in {"none", "emptypath"} THEN loaded
        ELSE LET merged == LoadConfigFile(loaded.config, f)
             IN  [env |-> loaded.env, config |-> merged.obj, exc |-> merged.exc]

\* an aws_config that has an entry for each of the four paths, None included
AwsConfigKeepsNone(tree) ==
    PyDict((K("aws_access_key_id") :> ConfigGet(tree, <<"aws", Dot, "access_key_id">>, PyNone)) @@
           (K("aws_secret_access_key") :> ConfigGet(tree, <<"aws", Dot, "secret_access_key">>, PyNone)) @@
           (K("aws_session_token") :> ConfigGet(tree, <<"aws", Dot, "session_token">>, PyNone)) @@
           (K("region_name") :> ConfigGet(tree, <<"aws", Dot, "region">>, PyNone)))

\* an aws_config that passes aws.profile on as profile_name
AwsConfigWithProfile(tree) ==
    LET add(m, path, name) ==
            IF Truthy(ConfigGet(tree, path, PyNone))
            THEN Put(m, K(name), ConfigGet(tree, path, PyNone))
            ELSE m
        c1 == add(<<>>, <<"aws", Dot, "access_key_id">>, "aws_access_key_id")
        c2 == add(c1, <<"aws", Dot, "secret_access_key">>, "aws_secret_access_key")
        c3 == add(c2, <<"aws", Dot, "session_token">>, "aws_session_token")
        c4 == add(c3, <<"aws", Dot, "region">>, "region_name")
        c5 == add(c4, <<"aws", Dot, "profile">>, "profile_name")
    IN  PyDict(c5)

\* the dict Config.aws_config builds
AwsConfig(tree) ==
    LET add(m, path, name) ==
            IF Truthy(ConfigGet(tree, path, PyNone))
            THEN Put(m, K(name), ConfigGet(tree, path, PyNone))
            ELSE m
        c1 == add(<<>>, <<"aws", Dot, "access_key_id">>, "aws_access_key_id")
        c2 == add(c1, <<"aws", Dot, "secret_access_key">>, "aws_secret_access_key")
        c3 == add(c2, <<"aws", Dot, "session_token">>, "aws_session_token")
        c4 == add(c3, <<"aws", Dot, "region">>, "region_name")
    IN  PyDict(c4)

----------------------------------------------------------------------------
(* The inputs the model draws from.                                        *)

\* the environment of the fixture temp_env_vars
TestEnv ==
    [NoEnv EXCEPT !["AWS_ACCESS_KEY_ID"] = <<"test_key">>,
                  !["AWS_SECRET_ACCESS_KEY"] = <<"test_secret">>,
                  !["AWS_DEFAULT_REGION"] = <<"us-west-2">>]

MixedEnv ==
    [NoEnv EXCEPT !["AWS_ACCESS_KEY_ID"] = <<"">>,
                  !["AWS_DEFAULT_REGION"] = <<"eu-west-1">>,
                  !["DEBUG"] = <<"TRUE">>,
                  !["LAMBDA_TIMEOUT"] = <<"60">>]

BadIntEnv == [NoEnv EXCEPT !["LAMBDA_MEMORY_SIZE"] = <<"abc">>]

\* DEBUG set to text
DebugEnv(text) == [NoEnv EXCEPT !["DEBUG"] = <<text>>]

\* temporary credentials of a named profile
FullEnv ==
    [NoEnv EXCEPT !["AWS_ACCESS_KEY_ID"] = <<"ASIAEXAMPLE">>,
                  !["AWS_SECRET_ACCESS_KEY"] = <<"secret">>,
                  !["AWS_SESSION_TOKEN"] = <<"token">>,
                  !["AWS_DEFAULT_REGION"] = <<"ap-south-1">>,
                  !["AWS_PROFILE"] = <<"dev">>,
                  !["LAMBDA_TIMEOUT"] = <<" 256 ">>]

NoDotenv == [exists |-> FALSE, assigns |-> <<>>]

SomeDotenv ==
    [exists |-> TRUE,
     assigns |-> ("AWS_DEFAULT_REGION" :> "eu-central-1") @@ ("AWS_PROFILE" :> "dev")]

\* the environments a process is started in, each with its .env file
Setups ==
    {<<NoEnv, NoDotenv>>, <<TestEnv, NoDotenv>>, <<MixedEnv, SomeDotenv>>,
     <<NoEnv, SomeDotenv>>, <<BadIntEnv, NoDotenv>>, <<FullEnv, NoDotenv>>,
     <<DebugEnv("True"), NoDotenv>>, <<DebugEnv("1"), NoDotenv>>,
     <<DebugEnv("YES"), NoDotenv>>, <<DebugEnv("FALSE"), NoDotenv>>,
     <<DebugEnv(""), NoDotenv>>}

\* documents yaml.safe_load returns
RegionDoc ==
    PyDict((K("aws") :> One("region", PyStr("ap-south-1"))) @@
           (K("app") :> One("log_level", PyStr("DEBUG"))))

\* aws: 9
ScalarSectionDoc == One("aws", PyInt(9))

\* aws: {region: null, aws: {region: deep}} and region: 7
NullLeafDoc ==
    PyDict((K("aws") :> PyDict((K("region") :> PyNone) @@
                               (K("aws") :> One("region", PyStr("deep"))))) @@
           (K("region") :> PyInt(7)))

Files ==
    {NoFile, EmptyPath, MissingFile, DeniedFile,
     InvalidFile("mapping values are not allowed here"),
     YamlFile(RegionDoc), YamlFile(ScalarSectionDoc), YamlFile(NullLeafDoc),
     YamlFile(EmptyDict), YamlFile(PyNone), YamlFile(PyStr("text")),
     YamlFile(PyList(<<PyStr("aws")>>))}

\* the setups and files the object is constructed from before it is used
UseSetups == {<<NoEnv, NoDotenv>>}

UseFiles == {NoFile, YamlFile(NullLeafDoc)}

\* the names dot-paths are made of
OpSegs == {K("aws"), K("region")}

\* dot-paths with an empty segment: "", "aws." and ".region"
OddPaths == {<<>>, <<"aws", Dot>>, <<Dot, "region">>}

\* the dot-paths get and set are called with
Paths ==
    {Join(segs) : segs \in UNION {[1..n -> OpSegs] : n \in 1..MaxSegs}}
        \cup OddPaths

\* the positional arguments after key in a call of get: none or a default
GetArgs == {<<>>, <<PyStr("default")>>}

\* the values set is called with
SetValues == {PyStr("test_value"), One("region", PyStr("new"))}

\* the overlays _merge_config is called with:
\*   {aws: {region: eu-west-1}}
\*   {aws: 9, region: {aws: x}}
\*   {aws: {region: {aws: 1}, aws: {profile: p}}}
Overlays ==
    {One("aws", One("region", PyStr("eu-west-1"))),
     PyDict((K("aws") :> PyInt(9)) @@ (K("region") :> One("aws", PyStr("x")))),
     One("aws", PyDict((K("region") :> One("aws", PyInt(1))) @@
                       (K("aws") :> One("profile", PyStr("p")))))}

----------------------------------------------------------------------------
(* The dict to_dict returns.  self._config.copy() is a new dict whose       *)
(* values are the objects self._config holds: a nested dict is one object   *)
(* reached from both, until one of the two binds its key to another value.  *)

\* the keys of self._config that set(key, ...) binds to another object: the
\* key itself when the dot-path has one segment; a longer path writes in
\* place inside the dict the first segment holds, or under a key that its
\* setdefault-like step creates
SetRebinds(key) == IF Len(Split(key)) = 1 THEN {Split(key)[1]} ELSE {}

\* the keys of base that _merge_config(base, overlay) binds to another
\* object: those it assigns, not those it recurses into
MergeRebinds(base, overlay) ==
    IF ~IsDict(overlay) THEN {}
    ELSE {k \in DOMAIN overlay.m :
            ~(k \in DOMAIN base.m /\ IsDict(base.m[k]) /\ IsDict(overlay.m[k]))}

\* the returned dict d once self._config has become tree by writes in place:
\* under a key of keys it shows what the tree holds there
SeenThrough(d, keys, tree) ==
    IF ~IsDict(d) THEN d
    ELSE PyDict([k \in DOMAIN d.m |-> IF k \in keys THEN tree.m[k] ELSE d.m[k]])

\* the keys under which self._config.copy() holds the objects of the tree
ToDictShared(tree) == DOMAIN tree.m

\* the keys an assignment into the returned dict is made at, one for
\* d[k] = v and two for d[k][j] = v
DictKeys == {K("aws"), K("app"), K("region")}
DictPaths == {<<k>> : k \in DictKeys} \cup {<<k, j>> : k, j \in DictKeys}

\* the values assigned into the returned dict
DictValues == {PyStr("changed"), PyNone}

\* the dot-paths read and written next to the returned dict
DictReads == {<<"aws", Dot, "region">>, <<"app", Dot, "debug">>, K("aws"), K("region")}
DictWrites == {<<"aws", Dot, "region">>, K("app"), <<"region", Dot, "aws">>}

----------------------------------------------------------------------------
(* The managers.  A manager keeps the Config object it is given and a boto3 *)
(* client; each operation is a function of the tree at the time of the     *)
(* call, its arguments and what the client call does, and gives the value  *)
(* returned, the exception raised and the client calls made.               *)

\* botocore.exceptions.ClientError with an error code, raised by operation
ClientError(code, operation) == Exc("ClientError", code, operation)

\* what a call on boto3 or on a client does: it returns resp or raises exc
Responds(resp) == [resp |-> resp, exc |-> NoExc]
Fails(exc) == [resp |-> PyNone, exc |-> exc]

\* one call on boto3 or on a client: its name, its arguments by keyword and
\* the exception it raised
SdkCall(name, kwargs, exc) == [call |-> name, kwargs |-> kwargs, exc |-> exc]

\* an operation that returns None in place of the exception it caught
RaisedSwallowed(exc, calls) == [val |-> PyNone, exc |-> NoExc, sdk |-> calls]
\* an operation ends in `except ... as e: self.logger.error(...); raise`, or
\* with an exception no except clause names
Raised(exc, calls) == [val |-> PyNone, exc |-> exc, sdk |-> calls]
\* an operation returns val
Returned(val, calls) == [val |-> val, exc |-> NoExc, sdk |-> calls]

\* str.upper() on the texts the model uses
Upper(s) ==
    CASE s \in {"info", "Info"} -> "INFO"
      [] s = "debug" -> "DEBUG"
      [] s = "verbose" -> "VERBOSE"
      [] OTHER -> s

\* the levels of the logging module by name, as getattr(logging, name) finds
\* them
LoggingLevels ==
    [name \in {"NOTSET", "DEBUG", "INFO", "WARN", "WARNING", "ERROR", "FATAL",
                "CRITICAL"} |->
        CASE name = "NOTSET" -> 0
          [] name = "DEBUG" -> 10
          [] name = "INFO" -> 20
          [] name \in {"WARN", "WARNING"} -> 30
          [] name = "ERROR" -> 40
          [] OTHER -> 50]

\* the names of the levels of the logging module
LevelNames == DOMAIN LoggingLevels

\* the exception get_logger(name, level) raises: a level that is true in a
\* condition is looked up by level.upper() in the logging module
GetLoggerExc(level) ==
    IF ~Truthy(level) THEN NoExc
    ELSE IF level.t # "str"
    THEN Exc("AttributeError", "no attribute upper", level.t)
    ELSE IF Upper(level.s) \notin LevelNames
    THEN Exc("AttributeError", "module logging has no attribute ", Upper(level.s))
    ELSE NoExc

\* a logger as logging.getLogger(name) makes it: no level, no handler
NewLogger == [level |-> LoggingLevels["NOTSET"], handlers |-> <<>>]

\* the handler get_logger makes
StdoutHandler == [class |-> "StreamHandler", stream |-> "stdout"]

\* the loggers `lgs` with the logger `name` as `logger`
WithLogger(lgs, name, logger) ==
    [n \in DOMAIN lgs \cup {name} |-> IF n = name THEN logger ELSE lgs[n]]

\* a get_logger that adds its handler on every call
GetLoggerAddsHandler(lgs, name, level) ==
    LET logger == IF name \in DOMAIN lgs THEN lgs[name] ELSE NewLogger
        exc == GetLoggerExc(level)
        levelled ==
            IF Truthy(level)
            THEN [logger EXCEPT !.level = LoggingLevels[Upper(level.s)]]
            ELSE IF logger.handlers = <<>>
            THEN [logger EXCEPT !.level = LoggingLevels["INFO"]]
            ELSE logger
        handled == [levelled EXCEPT !.handlers = Append(@, StdoutHandler)]
    IN  IF exc # NoExc
        THEN [loggers |-> WithLogger(lgs, name, logger), exc |-> exc]
        ELSE [loggers |-> WithLogger(lgs, name, handled), exc |-> NoExc]
\* get_logger(name, level) among the loggers `lgs`: the loggers after the
\* call and the exception raised
GetLogger(lgs, name, level) ==
    LET logger == IF name \in DOMAIN lgs THEN lgs[name] ELSE NewLogger
        exc == GetLoggerExc(level)
        levelled ==
            IF Truthy(level)
            THEN [logger EXCEPT !.level = LoggingLevels[Upper(level.s)]]
            ELSE IF logger.handlers = <<>>
            THEN [logger EXCEPT !.level = LoggingLevels["INFO"]]
            ELSE logger
        handled ==
            IF levelled.handlers = <<>>
            THEN [levelled EXCEPT !.handlers = <<StdoutHandler>>]
            ELSE levelled
    IN  IF exc # NoExc
        THEN [loggers |-> WithLogger(lgs, name, logger), exc |-> exc]
        ELSE [loggers |-> WithLogger(lgs, name, handled), exc |-> NoExc]

\* __name__ in the module of the manager of `service`
ModuleName(service) ==
    IF service = "s3" THEN "aws_toolkit.services.s3_manager"
    ELSE "aws_toolkit.services.ec2_manager"

\* S3Manager(config) and EC2Manager(config): the keyword arguments the
\* client is made with, the exception raised and the calls made on boto3
NewManager(tree, service, out) ==
    LET logging == GetLoggerExc(ConfigGet(tree, <<"app", Dot, "log_level">>, PyNone))
        kwargs == AwsConfig(tree)
        client == SdkCall("client", Put(kwargs.m, K("service_name"), PyStr(service)), out.exc)
        resource == SdkCall("resource", Put(kwargs.m, K("service_name"), PyStr(service)), NoExc)
    IN  IF logging # NoExc THEN Raised(logging, <<>>)
        ELSE IF out.exc # NoExc THEN Raised(out.exc, <<client>>)
        ELSE Returned(kwargs, <<client, resource>>)

\* the items of a list response, each cut down to the keys kept
RECURSIVE Project(_, _)
Project(items, keys) ==
    IF items = <<>> THEN <<>>
    ELSE <<PyDict([k \in keys |-> Head(items).m[k]])>> \o Project(Tail(items), keys)

\* S3Manager.list_buckets()
S3ListBuckets(out) ==
    LET call == SdkCall("list_buckets", <<>>, out.exc)
    IN  IF out.exc # NoExc THEN Raised(out.exc, <<call>>)
        ELSE Returned(PyList(Project(out.resp.m[K("Buckets")].items,
                                     {K("Name"), K("CreationDate")})),
                      <<call>>)

\* a create_bucket that takes the region from the configuration alone
EffectiveRegionOfConfig(tree, region) ==
    ConfigGet(tree, <<"aws", Dot, "region">>, PyNone)
\* region or self.config.get("aws.region")
EffectiveRegion(tree, region) ==
    IF Truthy(region) THEN region
    ELSE ConfigGet(tree, <<"aws", Dot, "region">>, PyNone)

\* S3Manager.create_bucket(bucket_name, region)
S3CreateBucket(tree, bucket_name, region, out) ==
    LET effective == EffectiveRegion(tree, region)
        kwargs == IF effective # PyStr("us-east-1")
                  THEN (K("Bucket") :> bucket_name) @@
                       (K("CreateBucketConfiguration") :> One("LocationConstraint", effective))
                  ELSE (K("Bucket") :> bucket_name)
        call == SdkCall("create_bucket", kwargs, out.exc)
    IN  IF out.exc # NoExc THEN Raised(out.exc, <<call>>)
        ELSE Returned(PyBool(TRUE), <<call>>)

\* os.path.basename on the paths the model uses
Basename(path) ==
    CASE path = "/tmp/test.txt" -> "test.txt"
      [] path = "/tmp/nonexistent.txt" -> "nonexistent.txt"
      [] path = "/tmp/" -> ""
      [] OTHER -> path

\* an upload_file that leaves the test of the local file to the client
S3UploadFileUnchecked(tree, exists, file_path, bucket_name, object_key, extra_args, out) ==
    LET key == IF object_key = PyNone THEN PyStr(Basename(file_path.s)) ELSE object_key
        given == IF extra_args = PyNone THEN EmptyDict ELSE extra_args
        encryption == ConfigGet(tree, <<"s3", Dot, "encryption">>, PyNone)
        extra == IF Truthy(encryption) /\ K("ServerSideEncryption") \notin DOMAIN given.m
                 THEN PyDict(Put(given.m, K("ServerSideEncryption"), encryption))
                 ELSE given
        call == SdkCall("upload_file",
                        (K("Filename") :> file_path) @@ (K("Bucket") :> bucket_name) @@
                        (K("Key") :> key) @@ (K("ExtraArgs") :> extra),
                        out.exc)
    IN  IF out.exc # NoExc THEN Raised(out.exc, <<call>>)
        ELSE Returned(PyBool(TRUE), <<call>>)

\* S3Manager.upload_file(file_path, bucket_name, object_key, extra_args),
\* os.path.exists(file_path) being exists
S3UploadFile(tree, exists, file_path, bucket_name, object_key, extra_args, out) ==
    IF ~exists
    THEN Raised(Exc("FileNotFoundError", "File not found: ", file_path.s), <<>>)
    ELSE
    LET key == IF object_key = PyNone THEN PyStr(Basename(file_path.s)) ELSE object_key
        given == IF extra_args = PyNone THEN EmptyDict ELSE extra_args
        encryption == ConfigGet(tree, <<"s3", Dot, "encryption">>, PyNone)
        extra == IF Truthy(encryption) /\ K("ServerSideEncryption") \notin DOMAIN given.m
                 THEN PyDict(Put(given.m, K("ServerSideEncryption"), encryption))
                 ELSE given
        call == SdkCall("upload_file",
                        (K("Filename") :> file_path) @@ (K("Bucket") :> bucket_name) @@
                        (K("Key") :> key) @@ (K("ExtraArgs") :> extra),
                        out.exc)
    IN  IF out.exc # NoExc THEN Raised(out.exc, <<call>>)
        ELSE Returned(PyBool(TRUE), <<call>>)

\* d.get(k): the value at k, None when d has no k
DictGet(d, k) == IF k \in DOMAIN d.m THEN d.m[k] ELSE PyNone

\* the filters of list_instances as the Filters argument: one item for each
\* key, its value in a list unless it is one (the filters the model uses have
\* one key, so the order of the items is that of the dict)
RECURSIVE FilterList(_, _)
FilterList(filters, keys) ==
    IF keys = {} THEN <<>>
    ELSE LET k == CHOOSE x \in keys : TRUE
             v == filters.m[k]
         IN  <<PyDict((K("Name") :> PyStr(k[1])) @@
                      (K("Values") :> IF v.t = "list" THEN v ELSE PyList(<<v>>)))>>
                 \o FilterList(filters, keys \ {k})

\* {tag["Key"]: tag["Value"] for tag in tags}: a later tag of a key wins
RECURSIVE TagDict(_)
TagDict(tags) ==
    IF tags = <<>> THEN <<>>
    ELSE LET last_tag == tags[Len(tags)]
         IN  Put(TagDict(SubSeq(tags, 1, Len(tags) - 1)),
                 K(last_tag.m[K("Key")].s), last_tag.m[K("Value")])

\* the dict list_instances makes of one instance of the response
InstanceInfo(instance) ==
    PyDict((K("InstanceId") :> instance.m[K("InstanceId")]) @@
           (K("InstanceType") :> instance.m[K("InstanceType")]) @@
           (K("State") :> instance.m[K("State")].m[K("Name")]) @@
           (K("LaunchTime") :> DictGet(instance, K("LaunchTime"))) @@
           (K("PublicIpAddress") :> DictGet(instance, K("PublicIpAddress"))) @@
           (K("PrivateIpAddress") :> DictGet(instance, K("PrivateIpAddress"))) @@
           (K("Tags") :> PyDict(TagDict(IF K("Tags") \in DOMAIN instance.m
                                        THEN instance.m[K("Tags")].items
                                        ELSE <<>>))))

\* the instances of the reservations, in order
RECURSIVE InstancesOf(_)
InstancesOf(reservations) ==
    IF reservations = <<>> THEN <<>>
    ELSE LET inst == Head(reservations).m[K("Instances")].items
         IN  [i \in 1..Len(inst) |-> InstanceInfo(inst[i])]
                 \o InstancesOf(Tail(reservations))

\* EC2Manager.list_instances(filters)
EC2ListInstances(filters, out) ==
    LET params == IF Truthy(filters)
                  THEN (K("Filters") :> PyList(FilterList(filters, DOMAIN filters.m)))
                  ELSE <<>>
        call == SdkCall("describe_instances", params, out.exc)
    IN  IF out.exc # NoExc THEN Raised(out.exc, <<call>>)
        ELSE Returned(PyList(InstancesOf(out.resp.m[K("Reservations")].items)),
                      <<call>>)

----------------------------------------------------------------------------
(* The S3 bucket the object operations work on, and those operations.  An  *)
(* object key is the str of a directory prefix and a number; the bucket    *)
(* lists its keys in order.                                                *)

\* max_keys of list_objects when the caller gives none
DefaultMaxKeys == 1000

\* the number of keys delete_all_objects sends in one delete_objects call
BatchSize == 1000

\* the key `prefix` followed by the number n
ObjectKey(prefix, n) == PyStr(<<prefix, n>>)

\* key.startswith(prefix), for a prefix that is "" or a directory prefix
StartsWith(key, prefix) == prefix.s = "" \/ key.s[1] = prefix.s

\* no bucket of the name, and a bucket holding the keys `keys`
NoBucket == [exists |-> FALSE, objects |-> <<>>, before |-> <<>>]
BucketOf(keys) == [exists |-> TRUE, objects |-> keys, before |-> keys]

\* the fault put into the SDK: the client call `call`, when made, raises exc
NoFault == [call |-> "none", exc |-> NoExc]
Fault(call, exc) == [call |-> call, exc |-> exc]

\* what the SDK call `call` raises on the bucket b under `fault`
SdkFailure(b, call, fault) ==
    IF fault.call = call THEN fault.exc
    ELSE IF ~b.exists THEN ClientError("NoSuchBucket", call)
    ELSE NoExc

\* the item of Contents S3 lists for a key
ContentsItem(key) ==
    PyDict((K("Key") :> key) @@ (K("Size") :> PyInt(1024)) @@
           (K("LastModified") :> PyStr("2023-01-01")) @@
           (K("ETag") :> PyStr("etag")))

\* s3_client.list_objects_v2(**params) on the bucket b: at most MaxKeys of
\* the keys that start with Prefix, in key order, and no Contents when there
\* is none
ListObjectsV2(b, params, fault) ==
    LET exc == SdkFailure(b, "list_objects_v2", fault)
        matching == IF K("Prefix") \in DOMAIN params
                    THEN SelectSeq(b.objects,
                                   LAMBDA key : StartsWith(key, params[K("Prefix")]))
                    ELSE b.objects
        count == IF Len(matching) < params[K("MaxKeys")].i
                 THEN Len(matching) ELSE params[K("MaxKeys")].i
        contents == [i \in 1..count |-> ContentsItem(matching[i])]
        truncated == K("IsTruncated") :> PyBool(count < Len(matching))
    IN  IF exc # NoExc THEN Fails(exc)
        ELSE IF count = 0 THEN Responds(PyDict(truncated))
        ELSE Responds(PyDict(truncated @@ (K("Contents") :> PyList(contents))))

\* the dict list_objects makes of one item of Contents
ObjectInfo(obj) ==
    PyDict((K("Key") :> obj.m[K("Key")]) @@
           (K("Size") :> obj.m[K("Size")]) @@
           (K("LastModified") :> obj.m[K("LastModified")]) @@
           (K("ETag") :> obj.m[K("ETag")]) @@
           (K("StorageClass") :> IF K("StorageClass") \in DOMAIN obj.m
                                 THEN obj.m[K("StorageClass")]
                                 ELSE PyStr("STANDARD")))

\* S3Manager.list_objects(bucket_name, prefix, max_keys)
S3ListObjects(b, bucket_name, prefix, max_keys, fault) ==
    LET params == IF Truthy(prefix)
                  THEN (K("Bucket") :> bucket_name) @@ (K("MaxKeys") :> max_keys) @@
                       (K("Prefix") :> prefix)
                  ELSE (K("Bucket") :> bucket_name) @@ (K("MaxKeys") :> max_keys)
        out == ListObjectsV2(b, params, fault)
        call == SdkCall("list_objects_v2", params, out.exc)
        contents == IF K("Contents") \in DOMAIN out.resp.m
                    THEN out.resp.m[K("Contents")].items ELSE <<>>
    IN  IF out.exc # NoExc THEN Raised(out.exc, <<call>>)
        ELSE Returned(PyList([i \in 1..Len(contents) |-> ObjectInfo(contents[i])]),
                      <<call>>)

\* s3_client.delete_objects(Bucket, Delete) on the bucket b: the bucket
\* without the keys named, each of them reported in Deleted
DeleteObjects(b, kwargs, fault) ==
    LET exc == SdkFailure(b, "delete_objects", fault)
        named == kwargs[K("Delete")].m[K("Objects")].items
        gone == {named[i].m[K("Key")] : i \in 1..Len(named)}
        kept == SelectSeq(b.objects, LAMBDA key : key \notin gone)
    IN  IF exc # NoExc THEN [resp |-> PyNone, exc |-> exc, bucket |-> b]
        ELSE [resp |-> One("Deleted", PyList(named)), exc |-> NoExc,
              bucket |-> [b EXCEPT !.objects = kept]]

\* an operation that ended as `done` and left the bucket as b
OnBucket(done, b) ==
    [val |-> done.val, exc |-> done.exc, sdk |-> done.sdk, bucket |-> b]

\* the loop of delete_all_objects from the key after the i-th on: `calls`
\* were made and deleted_count objects deleted so far
RECURSIVE DeleteBatches(_, _, _, _, _, _, _)
DeleteBatches(b, bucket_name, delete_keys, i, deleted_count, calls, fault) ==
    IF i >= Len(delete_keys) THEN OnBucket(Returned(PyInt(deleted_count), calls), b)
    ELSE LET upto == IF i + BatchSize < Len(delete_keys)
                     THEN i + BatchSize ELSE Len(delete_keys)
             batch == SubSeq(delete_keys, i + 1, upto)
             kwargs == (K("Bucket") :> bucket_name) @@
                       (K("Delete") :> One("Objects", PyList(batch)))
             out == DeleteObjects(b, kwargs, fault)
             call == SdkCall("delete_objects", kwargs, out.exc)
             deleted == IF K("Deleted") \in DOMAIN out.resp.m
                        THEN out.resp.m[K("Deleted")].items ELSE <<>>
         IN  IF out.exc # NoExc THEN OnBucket(Raised(out.exc, Append(calls, call)), b)
             ELSE DeleteBatches(out.bucket, bucket_name, delete_keys, upto,
                                deleted_count + Len(deleted), Append(calls, call),
                                fault)

\* S3Manager.delete_all_objects(bucket_name, prefix)
S3DeleteAllObjects(b, bucket_name, prefix, fault) ==
    LET listed == S3ListObjects(b, bucket_name, prefix, PyInt(DefaultMaxKeys), fault)
        objects == listed.val.items
        delete_keys == [i \in 1..Len(objects) |-> One("Key", objects[i].m[K("Key")])]
    IN  IF listed.exc # NoExc THEN OnBucket(listed, b)
        ELSE IF objects = <<>> THEN OnBucket(Returned(PyInt(0), listed.sdk), b)
        ELSE DeleteBatches(b, bucket_name, delete_keys, 0, 0, listed.sdk, fault)

\* s3_client.delete_bucket(Bucket) on the bucket b: S3 deletes an empty
\* bucket only
DeleteBucketCall(b, fault) ==
    LET exc == SdkFailure(b, "delete_bucket", fault)
    IN  IF exc # NoExc THEN [exc |-> exc, bucket |-> b]
        ELSE IF b.objects # <<>>
        THEN [exc |-> ClientError("BucketNotEmpty", "delete_bucket"), bucket |-> b]
        ELSE [exc |-> NoExc, bucket |-> [b EXCEPT !.exists = FALSE]]

\* a delete_bucket that goes on to delete the bucket when emptying it failed
S3DeleteBucketDespiteFailure(b, bucket_name, force, fault) ==
    LET emptied == IF Truthy(force)
                   THEN S3DeleteAllObjects(b, bucket_name, PyNone, fault)
                   ELSE OnBucket(Returned(PyNone, <<>>), b)
        out == DeleteBucketCall(emptied.bucket, fault)
        call == SdkCall("delete_bucket", (K("Bucket") :> bucket_name), out.exc)
    IN  IF out.exc # NoExc
        THEN OnBucket(Raised(out.exc, Append(emptied.sdk, call)), out.bucket)
        ELSE OnBucket(Returned(PyBool(TRUE), Append(emptied.sdk, call)), out.bucket)
\* S3Manager.delete_bucket(bucket_name, force)
S3DeleteBucket(b, bucket_name, force, fault) ==
    LET emptied == IF Truthy(force)
                   THEN S3DeleteAllObjects(b, bucket_name, PyNone, fault)
                   ELSE OnBucket(Returned(PyNone, <<>>), b)
        out == DeleteBucketCall(emptied.bucket, fault)
        call == SdkCall("delete_bucket", (K("Bucket") :> bucket_name), out.exc)
    IN  IF emptied.exc # NoExc THEN emptied
        ELSE IF out.exc # NoExc
        THEN OnBucket(Raised(out.exc, Append(emptied.sdk, call)), out.bucket)
        ELSE OnBucket(Returned(PyBool(TRUE), Append(emptied.sdk, call)), out.bucket)

----------------------------------------------------------------------------
(* EC2Manager.create_instance and add_tags.                                *)

\* [{"Key": k, "Value": v} for k, v in tags.items()] (the tags the model uses
\* have one key, so the order of the items is that of the dict)
RECURSIVE TagList(_, _)
TagList(tags, keys) ==
    IF keys = {} THEN <<>>
    ELSE LET k == CHOOSE x \in keys : TRUE
         IN  <<PyDict((K("Key") :> PyStr(k[1])) @@ (K("Value") :> tags.m[k]))>>
                 \o TagList(tags, keys \ {k})

\* EC2Manager.add_tags(instance_id, tags)
EC2AddTags(instance_id, tags, out) ==
    LET kwargs == (K("Resources") :> PyList(<<instance_id>>)) @@
                  (K("Tags") :> PyList(TagList(tags, DOMAIN tags.m)))
        call == SdkCall("create_tags", kwargs, out.exc)
    IN  IF out.exc # NoExc THEN Raised(out.exc, <<call>>)
        ELSE Returned(PyBool(TRUE), <<call>>)

\* m with k: v added when `given` holds
PutIf(given, m, k, v) == IF given THEN Put(m, K(k), v) ELSE m

\* the keyword arguments create_instance calls run_instances with
RunParams(tree, instance_type, image_id, key_name, security_groups, subnet_id, user_data) ==
    LET configured == ConfigGet(tree, <<"ec2", Dot, "key_pair_name">>, PyNone)
        required == (K("ImageId") :> image_id) @@ (K("MinCount") :> PyInt(1)) @@
                    (K("MaxCount") :> PyInt(1)) @@ (K("InstanceType") :> instance_type)
        keyed == IF Truthy(key_name) THEN Put(required, K("KeyName"), key_name)
                 ELSE PutIf(Truthy(configured), required, "KeyName", configured)
        grouped == IF ~Truthy(security_groups) THEN keyed
                   ELSE IF Truthy(subnet_id)
                   THEN Put(keyed, K("SecurityGroupIds"), security_groups)
                   ELSE Put(keyed, K("SecurityGroups"), security_groups)
        placed == PutIf(Truthy(subnet_id), grouped, "SubnetId", subnet_id)
    IN  PutIf(Truthy(user_data), placed, "UserData", user_data)

\* a create_instance that tags the instance whenever tags is not None
EC2CreateInstanceTagsGiven(tree, instance_type, image_id, key_name, security_groups, subnet_id, user_data, tags, run, tag) ==
    LET params == RunParams(tree, instance_type, image_id, key_name,
                            security_groups, subnet_id, user_data)
        call == SdkCall("run_instances", params, run.exc)
        instance == run.resp.m[K("Instances")].items[1]
        instance_id == instance.m[K("InstanceId")]
        tagged == IF tags # PyNone THEN EC2AddTags(instance_id, tags, tag)
                  ELSE Returned(PyNone, <<>>)
        info == PyDict((K("InstanceId") :> instance_id) @@
                       (K("InstanceType") :> instance.m[K("InstanceType")]) @@
                       (K("State") :> instance.m[K("State")].m[K("Name")]) @@
                       (K("ImageId") :> instance.m[K("ImageId")]))
    IN  IF run.exc # NoExc THEN Raised(run.exc, <<call>>)
        ELSE IF tagged.exc # NoExc THEN Raised(tagged.exc, <<call>> \o tagged.sdk)
        ELSE Returned(info, <<call>> \o tagged.sdk)
\* EC2Manager.create_instance(instance_type, image_id, key_name,
\* security_groups, subnet_id, user_data, tags): `run` is what run_instances
\* does and `tag` what create_tags does
EC2CreateInstance(tree, instance_type, image_id, key_name, security_groups, subnet_id, user_data, tags, run, tag) ==
    LET params == RunParams(tree, instance_type, image_id, key_name,
                            security_groups, subnet_id, user_data)
        call == SdkCall("run_instances", params, run.exc)
        instance == run.resp.m[K("Instances")].items[1]
        instance_id == instance.m[K("InstanceId")]
        tagged == IF Truthy(tags) THEN EC2AddTags(instance_id, tags, tag)
                  ELSE Returned(PyNone, <<>>)
        info == PyDict((K("InstanceId") :> instance_id) @@
                       (K("InstanceType") :> instance.m[K("InstanceType")]) @@
                       (K("State") :> instance.m[K("State")].m[K("Name")]) @@
                       (K("ImageId") :> instance.m[K("ImageId")]))
    IN  IF run.exc # NoExc THEN Raised(run.exc, <<call>>)
        ELSE IF tagged.exc # NoExc THEN Raised(tagged.exc, <<call>> \o tagged.sdk)
        ELSE Returned(info, <<call>> \o tagged.sdk)

----------------------------------------------------------------------------
(* The inputs of the manager operations.                                   *)

\* the services a manager is built for
Services == {"s3", "ec2"}

\* what boto3.client does: it returns a client or raises, as in
\* test_init_failure
ClientOutcomes == {Responds(PyNone), Fails(Exc("Exception", "Connection failed", ""))}

\* the regions create_bucket is given and aws.region is set to; None is no
\* argument
RegionArgs == {PyNone, PyStr(""), PyStr("us-east-1"), PyStr("eu-west-1")}
RegionsSet == {PyStr("us-east-1"), PyStr("eu-west-1")}

\* what the client's list_buckets does
ListBucketsOutcomes ==
    {Responds(One("Buckets", PyList(<<>>))),
     Responds(One("Buckets", PyList(<<
        PyDict((K("Name") :> PyStr("test-bucket-1")) @@
               (K("CreationDate") :> PyStr("2023-01-01T00:00:00.000Z")) @@
               (K("BucketRegion") :> PyStr("us-east-1"))),
        PyDict((K("Name") :> PyStr("test-bucket-2")) @@
               (K("CreationDate") :> PyStr("2023-01-02T00:00:00.000Z")))>>))),
     Fails(ClientError("AccessDenied", "ListBuckets"))}

\* what the client's create_bucket does
CreateBucketOutcomes ==
    {Responds(EmptyDict), Fails(ClientError("BucketAlreadyExists", "CreateBucket"))}

\* what the client's upload_file does
UploadOutcomes ==
    {Responds(PyNone), Fails(ClientError("NoSuchBucket", "PutObject"))}

\* the local files there are: os.path.exists is true of these paths
LocalFiles == {"/tmp/test.txt"}

\* the arguments file_path, object_key and extra_args of upload_file
UploadPaths == {PyStr("/tmp/test.txt"), PyStr("/tmp/nonexistent.txt")}
UploadKeys == {PyNone, PyStr("test-object.txt")}
UploadExtras == {PyNone, One("ServerSideEncryption", PyStr("aws:kms"))}

\* the filters list_instances is given
FilterArgs == {PyNone, EmptyDict, One("instance-state-name", PyStr("running"))}

\* what the client's describe_instances does
DescribeOutcomes ==
    {Responds(One("Reservations", PyList(<<>>))),
     Responds(One("Reservations", PyList(<<
        One("Instances", PyList(<<
           PyDict((K("InstanceId") :> PyStr("i-1234567890abcdef0")) @@
                  (K("InstanceType") :> PyStr("t2.micro")) @@
                  (K("State") :> One("Name", PyStr("running"))) @@
                  (K("PrivateIpAddress") :> PyStr("10.0.0.1")) @@
                  (K("Tags") :> PyList(<<
                      PyDict((K("Key") :> PyStr("Name")) @@
                             (K("Value") :> PyStr("Test Instance")))>>)))>>))>>))),
     Fails(ClientError("UnauthorizedOperation", "DescribeInstances"))}

\* the arguments key_name, security_groups, subnet_id and user_data of
\* create_instance
LaunchArgs ==
    {<<PyNone, PyNone, PyNone, PyNone>>,
     <<PyStr("my-key"), PyList(<<PyStr("sg-12345678")>>), PyNone, PyNone>>,
     <<PyNone, PyList(<<PyStr("sg-12345678")>>), PyStr("subnet-1"),
       PyStr("#!/bin/bash")>>}

\* the key pair names ec2.key_pair_name is set to
KeyPairs == {PyStr("configured-key")}

\* the tags create_instance is given; None is no argument
TagArgs == {PyNone, EmptyDict, One("Name", PyStr("test-instance"))}

\* the id run_instances gives the instance it launches
NewInstanceId == PyStr("i-1234567890abcdef0")

\* what the client's run_instances does
RunOutcomes ==
    {Responds(One("Instances", PyList(<<
        PyDict((K("InstanceId") :> NewInstanceId) @@
               (K("InstanceType") :> PyStr("t2.micro")) @@
               (K("State") :> One("Name", PyStr("pending"))) @@
               (K("ImageId") :> PyStr("ami-12345678")))>>))),
     Fails(ClientError("InvalidAMIID.NotFound", "RunInstances"))}

\* what the client's create_tags does
TagOutcomes ==
    {Responds(EmptyDict), Fails(ClientError("InvalidInstanceID.NotFound", "CreateTags"))}

\* the number of objects the largest bucket holds beyond one page of
\* list_objects
Beyond == 1

\* the bucket the object operations are called on
ObjectsBucket == PyStr("data-bucket")

\* the keys prefix 1 .. prefix n
KeysUnder(prefix, n) == [i \in 1..n |-> ObjectKey(prefix, i)]

\* the buckets: none, an empty one, one of two prefixes and one that holds
\* more keys than a page of list_objects
Buckets ==
    {NoBucket, BucketOf(<<>>),
     BucketOf(KeysUnder("logs/", 2) \o KeysUnder("tmp/", 1)),
     BucketOf(KeysUnder("logs/", DefaultMaxKeys + Beyond))}

\* the prefixes given; None is no argument
Prefixes == {PyNone, PyStr(""), PyStr("logs/"), PyStr("tmp/")}

\* max_keys as list_objects is given it
MaxKeysArgs == {PyInt(DefaultMaxKeys), PyInt(1)}

\* the faults: no call fails, or every call of one client method does
Faults ==
    {NoFault,
     Fault("list_objects_v2", ClientError("AccessDenied", "ListObjectsV2")),
     Fault("delete_objects", ClientError("AccessDenied", "DeleteObjects")),
     Fault("delete_bucket", ClientError("AccessDenied", "DeleteBucket"))}

\* the names and levels get_logger is given; None is no level
LoggerNames == {"app", "aws_toolkit.services.s3_manager"}
LevelArgs ==
    {PyNone, PyStr(""), PyStr("INFO"), PyStr("debug"), PyStr("ERROR"),
     PyStr("verbose")}

\* the environments and files the Config object of a manager is built from
ManagerSetups == {<<NoEnv, NoDotenv>>, <<TestEnv, NoDotenv>>}
ManagerFiles == {NoFile, YamlFile(NullLeafDoc)}

----------------------------------------------------------------------------
(* The state machine: one Config object, constructed once and then called. *)

\* the record of a call: what was called with what, and how it ended
Call(op, key, args, val, exc) ==
    [op |-> op, key |-> key, args |-> args,
     out |-> IF exc = NoExc THEN "returned" ELSE "raised",
     val |-> val, exc |-> exc, left |-> args]

NoCall == Call("none", <<>>, <<>>, PyNone, NoExc)

\* a process with the environment and .env file of `setup`, about to call
\* Config with the config_file `f`, and the bucket `b` in S3
StartWith(setup, f, b) ==
    /\ pc = "start"
    /\ env = setup[1]
    /\ dotenv = setup[2]
    /\ file = f
    /\ config = EmptyDict
    /\ before = EmptyDict
    /\ last = NoCall
    /\ writes = 0
    /\ config_dict = PyNone
    /\ shared = {}
    /\ clients = <<>>
    /\ sdk = <<>>
    /\ bucket = b
    /\ loggers = <<>>

\* the same with no bucket in S3
Start(setup, f) == StartWith(setup, f, NoBucket)

Init == \E setup \in UseSetups, f \in UseFiles : Start(setup, f)

InitAll == \E setup \in Setups, f \in Files : Start(setup, f)

\* Config(config_file)
Construct ==
    /\ pc = "start"
    /\ LET made == ConfigInit(env, dotenv, file)
       IN  /\ env' = made.env
           /\ config' = made.config
           /\ before' = config
           /\ pc' = IF made.exc = NoExc THEN "ready" ELSE "failed"
           /\ last' = Call("init", <<>>, <<>>, PyNone, made.exc)
    /\ UNCHANGED <<dotenv, file, writes, config_dict, shared, clients, sdk>>
    /\ UNCHANGED <<bucket, loggers>>

\* a get that makes the dicts it misses on the way, as set does
GetCreating(key, args) ==
    /\ pc = "ready"
    /\ LET default == IF args = <<>> THEN PyNone ELSE args[1]
       IN  /\ last' = Call("get", key, args, ConfigGet(config, key, default), NoExc)
           /\ config' = IF ConfigGet(config, key, [t |-> "missing"]) = [t |-> "missing"]
                            /\ ConfigSet(config, key, default).exc = NoExc
                         THEN ConfigSet(config, key, default).obj
                         ELSE config
    /\ before' = config
    /\ UNCHANGED <<pc, env, dotenv, file, writes>>
    /\ UNCHANGED <<config_dict, shared, clients, sdk>>
    /\ UNCHANGED <<bucket, loggers>>

\* config.get(key) and config.get(key, default)
Get(key, args) ==
    /\ pc = "ready"
    /\ LET default == IF args = <<>> THEN PyNone ELSE args[1]
       IN  last' = Call("get", key, args, ConfigGet(config, key, default), NoExc)
    /\ before' = config
    /\ UNCHANGED <<pc, env, dotenv, file, config, writes>>
    /\ UNCHANGED <<config_dict, shared, clients, sdk>>
    /\ UNCHANGED <<bucket, loggers>>

\* config.set(key, value)
Set(key, value) ==
    /\ pc = "ready"
    /\ writes < MaxWrites
    /\ LET done == ConfigSet(config, key, value)
           kept == shared \ SetRebinds(key)
       IN  /\ config' = done.obj
           /\ before' = config
           /\ last' = Call("set", key, <<value>>, PyNone, done.exc)
           /\ shared' = kept
           /\ config_dict' = SeenThrough(config_dict, kept, done.obj)
    /\ writes' = writes + 1
    /\ UNCHANGED <<pc, env, dotenv, file, clients, sdk>>
    /\ UNCHANGED <<bucket, loggers>>

\* config._merge_config(config._config, overlay)
Merge(overlay) ==
    /\ pc = "ready"
    /\ writes < MaxWrites
    /\ LET done == MergeConfig(config, overlay)
           kept == shared \ MergeRebinds(config, overlay)
       IN  /\ config' = done.obj
           /\ before' = config
           /\ last' = [Call("merge", <<>>, <<overlay>>, PyNone, done.exc)
                          EXCEPT !.left = <<MergeLeaves(config, overlay)>>]
           /\ shared' = kept
           /\ config_dict' = SeenThrough(config_dict, kept, done.obj)
    /\ writes' = writes + 1
    /\ UNCHANGED <<pc, env, dotenv, file, clients, sdk>>
    /\ UNCHANGED <<bucket, loggers>>

\* config.aws_config
GetAwsConfig ==
    /\ pc = "ready"
    /\ last' = Call("aws_config", <<>>, <<>>, AwsConfig(config), NoExc)
    /\ before' = config
    /\ UNCHANGED <<pc, env, dotenv, file, config, writes>>
    /\ UNCHANGED <<config_dict, shared, clients, sdk>>
    /\ UNCHANGED <<bucket, loggers>>

\* config.to_dict()
ToDict ==
    /\ pc = "ready"
    /\ config_dict' = PyDict(config.m)
    /\ shared' = ToDictShared(config)
    /\ last' = Call("to_dict", <<>>, <<>>, PyDict(config.m), NoExc)
    /\ before' = config
    /\ UNCHANGED <<pc, env, dotenv, file, config, writes, clients, sdk>>
    /\ UNCHANGED <<bucket, loggers>>

\* the holder of the returned dict assigns into it: d[k] = value for one
\* key, d[k][j] = value for two, d[k] being a dict
ModifyDict(keys, value) ==
    /\ pc = "ready"
    /\ IsDict(config_dict)
    /\ writes < MaxWrites
    /\ Len(keys) = 2 =>
          (keys[1] \in DOMAIN config_dict.m /\ IsDict(config_dict.m[keys[1]]))
    /\ IF Len(keys) = 1
       THEN /\ config_dict' = PyDict(Put(config_dict.m, keys[1], value))
            /\ shared' = shared \ {keys[1]}
            /\ config' = config
       ELSE LET inner == PyDict(Put(config_dict.m[keys[1]].m, keys[2], value))
            IN  /\ config_dict' = PyDict(Put(config_dict.m, keys[1], inner))
                /\ shared' = shared
                /\ config' = IF keys[1] \in shared
                             THEN PyDict(Put(config.m, keys[1], inner))
                             ELSE config
    /\ last' = Call("modify", <<>>, <<keys, value>>, PyNone, NoExc)
    /\ before' = config
    /\ writes' = writes + 1
    /\ UNCHANGED <<pc, env, dotenv, file, clients, sdk>>
    /\ UNCHANGED <<bucket, loggers>>

\* S3Manager(config) and EC2Manager(config)
BuildManager(service, out) ==
    /\ pc = "ready"
    /\ LET done == NewManager(config, service, out)
       IN  /\ clients' = IF done.exc = NoExc
                         THEN [x \in DOMAIN clients \cup {service} |->
                                  IF x = service THEN done.val ELSE clients[x]]
                         ELSE clients
           /\ sdk' = done.sdk
           /\ last' = Call("manager", <<>>, <<PyStr(service)>>, PyNone, done.exc)
    /\ loggers' = GetLogger(loggers, ModuleName(service),
                            ConfigGet(config, <<"app", Dot, "log_level">>, PyNone)).loggers
    /\ before' = config
    /\ UNCHANGED <<pc, env, dotenv, file, config, writes, config_dict, shared, bucket>>

\* a manager operation that has ended as `done` says, on anything but the
\* objects of the bucket ObjectsBucket
Operation(op, args, done) ==
    /\ sdk' = done.sdk
    /\ last' = Call(op, <<>>, args, done.val, done.exc)
    /\ before' = config
    /\ UNCHANGED <<pc, env, dotenv, file, config, writes, config_dict, shared, clients>>
    /\ UNCHANGED <<bucket, loggers>>

\* s3_manager.list_buckets()
ListBuckets(out) ==
    /\ pc = "ready"
    /\ "s3" \in DOMAIN clients
    /\ Operation("list_buckets", <<>>, S3ListBuckets(out))

\* s3_manager.create_bucket(bucket_name, region)
CreateBucket(bucket_name, region, out) ==
    /\ pc = "ready"
    /\ "s3" \in DOMAIN clients
    /\ bucket_name # ObjectsBucket
    /\ Operation("create_bucket", <<bucket_name, region>>,
                 S3CreateBucket(config, bucket_name, region, out))

\* s3_manager.upload_file(file_path, bucket_name, object_key, extra_args)
UploadFile(file_path, bucket_name, object_key, extra_args, out) ==
    /\ pc = "ready"
    /\ "s3" \in DOMAIN clients
    /\ bucket_name # ObjectsBucket
    /\ Operation("upload_file", <<file_path, bucket_name, object_key, extra_args>>,
                 S3UploadFile(config, file_path.s \in LocalFiles, file_path,
                              bucket_name, object_key, extra_args, out))

\* ec2_manager.list_instances(filters)
ListInstances(filters, out) ==
    /\ pc = "ready"
    /\ "ec2" \in DOMAIN clients
    /\ Operation("list_instances", <<filters>>, EC2ListInstances(filters, out))

\* ec2_manager.create_instance(instance_type, image_id, key_name,
\* security_groups, subnet_id, user_data, tags)
CreateInstance(instance_type, image_id, launch, tags, run, tag) ==
    /\ pc = "ready"
    /\ "ec2" \in DOMAIN clients
    /\ Operation("create_instance",
                 <<instance_type, image_id, launch[1], launch[2], launch[3],
                   launch[4], tags>>,
                 EC2CreateInstance(config, instance_type, image_id, launch[1],
                                   launch[2], launch[3], launch[4], tags, run, tag))

\* an operation on the objects of the bucket that has ended as `done` says
ObjectOperation(op, args, done) ==
    /\ sdk' = done.sdk
    /\ last' = Call(op, <<>>, args, done.val, done.exc)
    /\ bucket' = [done.bucket EXCEPT !.before = bucket.objects]
    /\ before' = config
    /\ UNCHANGED <<pc, env, dotenv, file, config, writes, config_dict, shared, clients>>
    /\ UNCHANGED loggers

\* s3_manager.list_objects(bucket_name, prefix, max_keys)
ListObjects(bucket_name, prefix, max_keys, fault) ==
    /\ pc = "ready"
    /\ "s3" \in DOMAIN clients
    /\ bucket_name = ObjectsBucket
    /\ ObjectOperation("list_objects", <<bucket_name, prefix, max_keys>>,
                       OnBucket(S3ListObjects(bucket, bucket_name, prefix,
                                              max_keys, fault), bucket))

\* s3_manager.delete_all_objects(bucket_name, prefix)
DeleteAllObjects(bucket_name, prefix, fault) ==
    /\ pc = "ready"
    /\ "s3" \in DOMAIN clients
    /\ bucket_name = ObjectsBucket
    /\ ObjectOperation("delete_all_objects", <<bucket_name, prefix>>,
                       S3DeleteAllObjects(bucket, bucket_name, prefix, fault))

\* s3_manager.delete_bucket(bucket_name, force)
DeleteBucket(bucket_name, force, fault) ==
    /\ pc = "ready"
    /\ "s3" \in DOMAIN clients
    /\ bucket_name = ObjectsBucket
    /\ ObjectOperation("delete_bucket", <<bucket_name, force>>,
                       S3DeleteBucket(bucket, bucket_name, force, fault))

\* get_logger(name, level)
GetLoggerCall(name, level) ==
    /\ LET done == GetLogger(loggers, name, level)
       IN  /\ loggers' = done.loggers
           /\ last' = Call("get_logger", <<>>, <<PyStr(name), level>>, PyNone, done.exc)
    /\ before' = config
    /\ UNCHANGED <<pc, env, dotenv, file, config, writes, config_dict, shared>>
    /\ UNCHANGED <<clients, sdk, bucket>>

Next ==
    \/ Construct
    \/ \E key \in Paths, args \in GetArgs : Get(key, args)
    \/ \E key \in Paths, value \in SetValues : Set(key, value)
    \/ \E overlay \in Overlays : Merge(overlay)
    \/ GetAwsConfig

\* construction and use of a Config object
Spec == Init /\ [][Next]_vars

\* the dot-paths Config._load_env_vars fills
ConfigKeys ==
    {<<"aws", Dot, "access_key_id">>, <<"aws", Dot, "secret_access_key">>,
     <<"aws", Dot, "session_token">>, <<"aws", Dot, "region">>,
     <<"aws", Dot, "profile">>, <<"app", Dot, "log_level">>,
     <<"app", Dot, "debug">>, <<"s3", Dot, "bucket_prefix">>,
     <<"s3", Dot, "encryption">>, <<"ec2", Dot, "key_pair_name">>,
     <<"ec2", Dot, "security_group">>, <<"lambda", Dot, "timeout">>,
     <<"lambda", Dot, "memory_size">>}

NextInit ==
    \/ Construct
    \/ \E key \in ConfigKeys, args \in GetArgs : Get(key, args)
    \/ GetAwsConfig

\* construction from every setup and file, and reads of what it built
SpecInit == InitAll /\ [][NextInit]_vars

NextDict ==
    \/ Construct
    \/ ToDict
    \/ \E keys \in DictPaths, value \in DictValues : ModifyDict(keys, value)
    \/ \E key \in DictReads, args \in GetArgs : Get(key, args)
    \/ \E key \in DictWrites, value \in SetValues : Set(key, value)
    \/ \E overlay \in Overlays : Merge(overlay)

\* a Config object and the holder of a dict its to_dict returned
SpecDict == Init /\ [][NextDict]_vars

InitManagers == \E setup \in ManagerSetups, f \in ManagerFiles : Start(setup, f)

NextManagers ==
    \/ Construct
    \/ \E service \in Services, out \in ClientOutcomes : BuildManager(service, out)
    \/ \E value \in RegionsSet : Set(<<"aws", Dot, "region">>, value)
    \/ \E out \in ListBucketsOutcomes : ListBuckets(out)
    \/ \E region \in RegionArgs, out \in CreateBucketOutcomes :
          CreateBucket(PyStr("test-bucket"), region, out)
    \/ \E file_path \in UploadPaths, object_key \in UploadKeys,
          extra_args \in UploadExtras, out \in UploadOutcomes :
          UploadFile(file_path, PyStr("test-bucket"), object_key, extra_args, out)
    \/ \E filters \in FilterArgs, out \in DescribeOutcomes : ListInstances(filters, out)

\* a Config object, the managers built on it and their operations
SpecManagers == InitManagers /\ [][NextManagers]_vars

NextInstances ==
    \/ Construct
    \/ \E value \in KeyPairs : Set(<<"ec2", Dot, "key_pair_name">>, value)
    \/ \E out \in ClientOutcomes : BuildManager("ec2", out)
    \/ \E filters \in FilterArgs, out \in DescribeOutcomes : ListInstances(filters, out)
    \/ \E launch \in LaunchArgs, tags \in TagArgs, run \in RunOutcomes,
          tag \in TagOutcomes :
          CreateInstance(PyStr("t2.micro"), PyStr("ami-12345678"), launch, tags,
                         run, tag)

\* an EC2Manager and the instances it lists and creates
SpecInstances == InitManagers /\ [][NextInstances]_vars

InitObjects == \E b \in Buckets : StartWith(<<TestEnv, NoDotenv>>, NoFile, b)

NextObjects ==
    \/ Construct
    \/ \E out \in ClientOutcomes : BuildManager("s3", out)
    \/ \E prefix \in Prefixes, max_keys \in MaxKeysArgs, fault \in Faults :
          ListObjects(ObjectsBucket, prefix, max_keys, fault)
    \/ \E prefix \in Prefixes, fault \in Faults :
          DeleteAllObjects(ObjectsBucket, prefix, fault)
    \/ \E force \in {PyBool(TRUE), PyBool(FALSE)}, fault \in Faults :
          DeleteBucket(ObjectsBucket, force, fault)

\* an S3Manager and the objects of one bucket
SpecObjects == InitObjects /\ [][NextObjects]_vars

InitLoggers == \E setup \in ManagerSetups : Start(setup, NoFile)

NextLoggers ==
    \/ Construct
    \/ \E service \in Services, out \in ClientOutcomes : BuildManager(service, out)
    \/ \E name \in LoggerNames, level \in LevelArgs : GetLoggerCall(name, level)

\* the loggers of a process that calls get_logger and builds managers
SpecLoggers == InitLoggers /\ [][NextLoggers]_vars

----------------------------------------------------------------------------
(* The vocabulary of the properties.                                       *)

RECURSIVE Walk(_, _)
\* how far the segments lead into a value: the value reached and the
\* segments left when the walk stops
Walk(value, segs) ==
    IF segs = <<>> \/ ~IsDict(value) THEN [at |-> value, left |-> segs]
    ELSE IF Head(segs) \notin DOMAIN value.m THEN [at |-> value, left |-> segs]
    ELSE Walk(value.m[Head(segs)], Tail(segs))

\* the path is in the tree: every segment is a key of the mapping reached
PathPresent(tree, segs) == Walk(tree, segs).left = <<>>

\* the value at a path that is in the tree
ValueAt(tree, segs) == Walk(tree, segs).at

\* the path is absent: some segment is not a key of the mapping reached so far
KeyMissing(tree, segs) ==
    LET w == Walk(tree, segs) IN w.left # <<>> /\ IsDict(w.at)

\* a segment that is not the last resolves to a value that is no mapping
NotMapping(tree, segs) ==
    LET w == Walk(tree, segs) IN w.left # <<>> /\ ~IsDict(w.at)

\* the default a call of get was given: None when it was given none
DefaultArg(call) == IF call.args = <<>> THEN PyNone ELSE call.args[1]

\* the last call was op and has returned or raised
Did(op) == pc = "ready" /\ last.op = op

----------------------------------------------------------------------------
(* C1..C5: get and set.                                                    *)

\* C1: get(p, d) on a path p absent from the tree (some segment is not a key
\* of the mapping reached so far) returns d, and None when no default is given.
C1_GetAbsentReturnsDefault ==
    (Did("get") /\ KeyMissing(before, Split(last.key)))
        => (last.out = "returned" /\ last.val = DefaultArg(last))

\* a get of a path of several segments whose first segment is no key of the
\* tree, called with a default, as in test_get_method
C1_Witness ==
    /\ Did("get")
    /\ Len(Split(last.key)) = MaxSegs
    /\ Split(last.key)[1] \notin DOMAIN before.m
    /\ last.args = <<PyStr("default")>>
    /\ last.val = PyStr("default")

\* C2: after set(p, v) has been called, get(p) returns v, whatever the tree
\* held along the segments of p, a scalar or None at a non-final segment
\* included.
C2_WriteThenRead ==
    Did("set")
        => (last.out = "returned" /\ ConfigGet(config, last.key, PyNone) = last.args[1])

\* C3: get, set and aws_config return normally for every tree and dot-path.
C3_Total ==
    (pc = "ready" /\ last.op \in {"get", "set", "aws_config"})
        => last.out = "returned"

\* C4: get(p, d) returns d without raising when a non-final segment of p
\* resolves to a value that is no mapping.
C4_GetThroughScalarReturnsDefault ==
    (Did("get") /\ NotMapping(before, Split(last.key)))
        => (last.out = "returned" /\ last.val = DefaultArg(last))

\* a get with a default that meets a str or None before its last segment
C4_Witness ==
    /\ Did("get")
    /\ NotMapping(before, Split(last.key))
    /\ Walk(before, Split(last.key)).at.t \in {"str", "none"}
    /\ last.args = <<PyStr("default")>>
    /\ last.val = PyStr("default")

\* C5: set(p, v) with a mapping v on a tree that holds a mapping M at p
\* leaves exactly v at p: no key of M that is not a key of v is reachable
\* under p.
C5_SetOverwrites ==
    LET segs == Split(last.key)
        v == last.args[1]
    IN  (/\ Did("set")
         /\ IsDict(v)
         /\ PathPresent(before, segs)
         /\ IsDict(ValueAt(before, segs)))
        => /\ last.out = "returned"
           /\ PathPresent(config, segs)
           /\ ValueAt(config, segs) = v
           /\ \A k \in DOMAIN ValueAt(before, segs).m :
                  k \notin DOMAIN v.m => ~PathPresent(config, Append(segs, k))

\* a set of a mapping over a mapping that shares a key with it and has a key
\* of its own
C5_Witness ==
    /\ Did("set")
    /\ last.out = "returned"
    /\ IsDict(last.args[1])
    /\ PathPresent(before, Split(last.key))
    /\ IsDict(ValueAt(before, Split(last.key)))
    /\ DOMAIN ValueAt(before, Split(last.key)).m \ DOMAIN last.args[1].m # {}
    /\ DOMAIN ValueAt(before, Split(last.key)).m \cap DOMAIN last.args[1].m # {}
    /\ ValueAt(config, Split(last.key)) = last.args[1]

----------------------------------------------------------------------------
(* C6, C7: the deep merge.                                                 *)

\* the last call has merged an overlay into a base: _merge_config itself, or
\* a construction that read a YAML mapping
HasMerged ==
    /\ pc = "ready"
    /\ \/ last.op = "merge" /\ last.out = "returned"
       \/ last.op = "init" /\ file.kind = "yaml"

\* the base as it was before that merge, and the overlay
MergedBase ==
    IF last.op = "merge" THEN before ELSE LoadEnvVars(env, dotenv).config
MergedOverlay == IF last.op = "merge" THEN last.args[1] ELSE file.doc

RECURSIVE KeepsAndRecurses(_, _, _)
\* r holds the keys of a and of b; a key of a alone keeps a's value, a key of
\* b alone has b's, and where both hold a mapping the same is true one level
\* down (a, b and r are the items of three mappings)
KeepsAndRecurses(a, b, r) ==
    /\ DOMAIN r = DOMAIN a \cup DOMAIN b
    /\ \A k \in DOMAIN a \ DOMAIN b : r[k] = a[k]
    /\ \A k \in DOMAIN b \ DOMAIN a : r[k] = b[k]
    /\ \A k \in DOMAIN a \cap DOMAIN b :
           (IsDict(a[k]) /\ IsDict(b[k]))
               => (IsDict(r[k]) /\ KeepsAndRecurses(a[k].m, b[k].m, r[k].m))

\* C6: the deep merge of overlay B onto base A keeps the keys B does not
\* override at every nesting level: a key of A alone keeps its value, a key
\* of B alone is added with B's value, and where both hold a mapping the
\* result is their merge.
C6_MergePreservesSiblings ==
    HasMerged => KeepsAndRecurses(MergedBase.m, MergedOverlay.m, config.m)

\* a merge that went one level down at a key, overrode one key there and
\* kept another ({a: {x: 1, y: 2}} with {a: {x: 9}})
C6_Witness ==
    /\ Did("merge")
    /\ last.out = "returned"
    /\ \E k \in DOMAIN before.m \cap DOMAIN last.args[1].m :
          /\ IsDict(before.m[k]) /\ IsDict(last.args[1].m[k])
          /\ \E x \in DOMAIN before.m[k].m \cap DOMAIN last.args[1].m[k].m :
                /\ before.m[k].m[x] # last.args[1].m[k].m[x]
                /\ config.m[k].m[x] = last.args[1].m[k].m[x]
          /\ \E y \in DOMAIN before.m[k].m \ DOMAIN last.args[1].m[k].m :
                config.m[k].m[y] = before.m[k].m[y]

RECURSIVE ReplacesUnlessBothDicts(_, _, _)
\* at a key of both a and b, r has b's value unless both hold a mapping, and
\* then the same is true one level down
ReplacesUnlessBothDicts(a, b, r) ==
    \A k \in DOMAIN a \cap DOMAIN b :
        /\ k \in DOMAIN r
        /\ IF IsDict(a[k]) /\ IsDict(b[k])
           THEN IsDict(r[k]) /\ ReplacesUnlessBothDicts(a[k].m, b[k].m, r[k].m)
           ELSE r[k] = b[k]

\* C7: the deep merge replaces instead of recursing wherever the two sides
\* do not both hold a mapping at a key: a scalar of the overlay replaces a
\* mapping of the base, a mapping of the overlay replaces a scalar of the
\* base, and nothing of the base's value at that key survives.
C7_MergeReplacesUnlessBothMappings ==
    HasMerged => ReplacesUnlessBothDicts(MergedBase.m, MergedOverlay.m, config.m)

\* one merge in which a scalar replaced a mapping ({a: {x: 1}} with {a: 9})
\* and a mapping replaced a scalar
C7_Witness ==
    /\ Did("merge")
    /\ last.out = "returned"
    /\ \E k \in DOMAIN before.m \cap DOMAIN last.args[1].m :
          /\ IsDict(before.m[k]) /\ DOMAIN before.m[k].m # {}
          /\ ~IsDict(last.args[1].m[k])
          /\ config.m[k] = last.args[1].m[k]
    /\ \E k \in DOMAIN before.m \cap DOMAIN last.args[1].m :
          /\ ~IsDict(before.m[k])
          /\ IsDict(last.args[1].m[k])
          /\ config.m[k] = last.args[1].m[k]

----------------------------------------------------------------------------
(* C8..C10: construction.                                                  *)

\* where each configuration path comes from: its environment variable and
\* the value it has when the variable is unset
Sources ==
    (<<"aws", Dot, "access_key_id">> :> [var |-> "AWS_ACCESS_KEY_ID", unset |-> PyNone]) @@
    (<<"aws", Dot, "secret_access_key">> :> [var |-> "AWS_SECRET_ACCESS_KEY", unset |-> PyNone]) @@
    (<<"aws", Dot, "session_token">> :> [var |-> "AWS_SESSION_TOKEN", unset |-> PyNone]) @@
    (<<"aws", Dot, "region">> :> [var |-> "AWS_DEFAULT_REGION", unset |-> PyStr("us-east-1")]) @@
    (<<"aws", Dot, "profile">> :> [var |-> "AWS_PROFILE", unset |-> PyNone]) @@
    (<<"app", Dot, "log_level">> :> [var |-> "LOG_LEVEL", unset |-> PyStr("INFO")]) @@
    (<<"app", Dot, "debug">> :> [var |-> "DEBUG", unset |-> PyBool(FALSE)]) @@
    (<<"s3", Dot, "bucket_prefix">> :> [var |-> "S3_BUCKET_PREFIX", unset |-> PyStr("aws-toolkit-")]) @@
    (<<"s3", Dot, "encryption">> :> [var |-> "S3_ENCRYPTION", unset |-> PyStr("AES256")]) @@
    (<<"ec2", Dot, "key_pair_name">> :> [var |-> "EC2_KEY_PAIR_NAME", unset |-> PyStr("aws-toolkit-keypair")]) @@
    (<<"ec2", Dot, "security_group">> :> [var |-> "EC2_SECURITY_GROUP", unset |-> PyStr("aws-toolkit-sg")]) @@
    (<<"lambda", Dot, "timeout">> :> [var |-> "LAMBDA_TIMEOUT", unset |-> PyInt(30)]) @@
    (<<"lambda", Dot, "memory_size">> :> [var |-> "LAMBDA_MEMORY_SIZE", unset |-> PyInt(128)])

\* the value a path has from the environment: the variable's text (a bool
\* for DEBUG, an int for the two LAMBDA variables) when the variable is set,
\* the compiled-in default when it is not
FromEnvironment(e, key) ==
    LET src == Sources[key]
    IN  IF e[src.var] = Unset THEN src.unset
        ELSE CASE src.unset.t = "bool" -> PyBool(Lower(e[src.var][1]) = "true")
               [] src.unset.t = "int" -> IntOf(e[src.var][1]).val
               [] OTHER -> PyStr(e[src.var][1])

\* the file sets the path
FileSets(key) ==
    file.kind = "yaml" /\ IsDict(file.doc) /\ PathPresent(file.doc, Split(key))

\* the file sets a section above the path to a value that is no mapping
FileFlattens(key) ==
    file.kind = "yaml" /\ IsDict(file.doc) /\ NotMapping(file.doc, Split(key))

\* a value no call is given and no tree holds
Nothing == [t |-> "nothing"]

\* C8 as stated: after construction every configuration path has the file's
\* value when the file sets the path, otherwise the environment variable's
\* when it is set, otherwise the compiled-in default.
C8_FileOverEnvOverDefault ==
    pc = "ready" =>
        \A key \in DOMAIN Sources :
            ConfigGet(config, key, Nothing) =
                IF FileSets(key) THEN ValueAt(file.doc, Split(key))
                ELSE FromEnvironment(env, key)

\* C8 as amended: after construction every configuration path has the file's
\* value when the file sets the path; when the file sets a section above the
\* path to a scalar or null, the path is absent and get returns its default;
\* otherwise the path has the environment variable's value when the variable
\* is set (in the process or by .env) and the compiled-in default when not.
C8_FileOverEnvOverDefaultUnlessFlattened ==
    pc = "ready" =>
        \A key \in DOMAIN Sources :
            ConfigGet(config, key, Nothing) =
                IF FileSets(key) THEN ValueAt(file.doc, Split(key))
                ELSE IF FileFlattens(key) THEN Nothing
                ELSE FromEnvironment(env, key)

\* AWS_DEFAULT_REGION=eu-west-1 and a file with aws.region: ap-south-1:
\* get('aws.region') has returned 'ap-south-1'
C8_Witness ==
    /\ Did("get")
    /\ last.key = <<"aws", Dot, "region">>
    /\ env["AWS_DEFAULT_REGION"] = <<"eu-west-1">>
    /\ FileSets(last.key)
    /\ last.val = PyStr("ap-south-1")
    /\ \E key \in DOMAIN Sources :
          ~FileSets(key) /\ env[Sources[key].var] # Unset
    /\ \E key \in DOMAIN Sources :
          ~FileSets(key) /\ env[Sources[key].var] = Unset

\* C9: constructing Config with a path that names no file raises nothing and
\* leaves the tree that constructing Config with no path leaves in the same
\* environment.
C9_MissingFileAsNoFile ==
    (last.op = "init" /\ file.kind = "missing")
        => /\ last.out = "returned"
           /\ config = ConfigInit(env, dotenv, NoFile).config

\* the part of C9 that holds: a path that names no file gives the outcome,
\* exception or tree, of no path at all
C9_MissingFileSameOutcome ==
    (last.op = "init" /\ file.kind = "missing")
        => /\ last.exc = ConfigInit(env, dotenv, NoFile).exc
           /\ config = ConfigInit(env, dotenv, NoFile).config

\* C10: constructing Config with a file that is not valid YAML raises the
\* ValueError 'Invalid YAML in config file: ' with the parser's diagnostic;
\* no Config object is returned and nothing of the file is in the tree.
C10_InvalidYamlRaisesParseError ==
    (last.op = "init" /\ file.kind = "invalid")
        => /\ pc = "failed"
           /\ last.exc = Exc("ValueError", "Invalid YAML in config file: ", file.diag)
           /\ config = LoadEnvVars(env, dotenv).config

\* the part of C10 that holds: it is true when the two LAMBDA variables are
\* unset or hold integer text
C10_InvalidYamlRaisesParseErrorIfEnvLoads ==
    (last.op = "init" /\ file.kind = "invalid" /\ LoadEnvVars(env, dotenv).exc = NoExc)
        => /\ pc = "failed"
           /\ last.exc = Exc("ValueError", "Invalid YAML in config file: ", file.diag)
           /\ config = LoadEnvVars(env, dotenv).config

----------------------------------------------------------------------------
(* C11..C13: what construction raises and the defaults it leaves.          *)

\* the parse error of Config._load_config_file
IsParseError(exc) ==
    exc.type = "ValueError" /\ exc.msg = "Invalid YAML in config file: "

\* C11: constructing Config with a file that exists, can be read and holds
\* valid YAML (an empty document or a top-level scalar or list included), in
\* an environment _load_env_vars accepts, returns or raises the parse error
\* and no other exception.
C11_ValidYamlRaisesParseErrorOnly ==
    (/\ last.op = "init"
     /\ file.kind = "yaml"
     /\ LoadEnvVars(env, dotenv).exc = NoExc)
        => (last.out = "returned" \/ IsParseError(last.exc))

\* the part of C11 that holds: a file whose top level is a mapping never makes
\* construction raise
C11_MappingFileReturns ==
    (/\ last.op = "init"
     /\ file.kind = "yaml"
     /\ IsDict(file.doc)
     /\ LoadEnvVars(env, dotenv).exc = NoExc)
        => last.out = "returned"

\* C12: constructing Config with no file returns whatever LAMBDA_TIMEOUT and
\* LAMBDA_MEMORY_SIZE hold, and lambda.timeout and lambda.memory_size are
\* ints, 30 and 128 when the variable is unset.
C12_LambdaValuesAlwaysInts ==
    (last.op = "init" /\ file.kind = "none")
        => /\ last.out = "returned"
           /\ \A key \in {<<"lambda", Dot, "timeout">>, <<"lambda", Dot, "memory_size">>} :
                 /\ ConfigGet(config, key, PyNone).t = "int"
                 /\ env[Sources[key].var] = Unset
                        => ConfigGet(config, key, PyNone) = Sources[key].unset

\* the part of C12 that holds: when construction returns, the two paths hold
\* ints, 30 and 128 when the variable is unset
C12_LambdaValuesIntsWhenBuilt ==
    (pc = "ready" /\ file.kind = "none")
        => \A key \in {<<"lambda", Dot, "timeout">>, <<"lambda", Dot, "memory_size">>} :
              /\ ConfigGet(config, key, PyNone).t = "int"
              /\ env[Sources[key].var] = Unset
                     => ConfigGet(config, key, PyNone) = Sources[key].unset

\* the literals of the paths that have a default, by environment variable
Literals ==
    ("AWS_DEFAULT_REGION" :> <<<<"aws", Dot, "region">>, PyStr("us-east-1")>>) @@
    ("LOG_LEVEL" :> <<<<"app", Dot, "log_level">>, PyStr("INFO")>>) @@
    ("DEBUG" :> <<<<"app", Dot, "debug">>, PyBool(FALSE)>>) @@
    ("S3_BUCKET_PREFIX" :> <<<<"s3", Dot, "bucket_prefix">>, PyStr("aws-toolkit-")>>) @@
    ("S3_ENCRYPTION" :> <<<<"s3", Dot, "encryption">>, PyStr("AES256")>>) @@
    ("EC2_KEY_PAIR_NAME" :> <<<<"ec2", Dot, "key_pair_name">>, PyStr("aws-toolkit-keypair")>>) @@
    ("EC2_SECURITY_GROUP" :> <<<<"ec2", Dot, "security_group">>, PyStr("aws-toolkit-sg")>>)

\* the paths that have no default, by environment variable
Undefaulted ==
    ("AWS_ACCESS_KEY_ID" :> <<"aws", Dot, "access_key_id">>) @@
    ("AWS_SECRET_ACCESS_KEY" :> <<"aws", Dot, "secret_access_key">>) @@
    ("AWS_SESSION_TOKEN" :> <<"aws", Dot, "session_token">>) @@
    ("AWS_PROFILE" :> <<"aws", Dot, "profile">>)

\* C13: after Config() with no file, a path whose environment variable is
\* unset (in the process and in .env) holds its literal when it has one, and
\* is in the tree with the value None when it has none.
C13_DefaultsWhenUnset ==
    (pc = "ready" /\ file.kind = "none")
        => /\ \A var \in DOMAIN Literals :
                 env[var] = Unset
                    => /\ PathPresent(config, Split(Literals[var][1]))
                       /\ ValueAt(config, Split(Literals[var][1])) = Literals[var][2]
           /\ \A var \in DOMAIN Undefaulted :
                 env[var] = Unset
                    => /\ PathPresent(config, Split(Undefaulted[var]))
                       /\ ValueAt(config, Split(Undefaulted[var])) = PyNone

\* Config() in an empty environment with no .env file, and a get of
\* aws.profile, given a default, that has returned the None the tree holds
C13_Witness ==
    /\ Did("get")
    /\ file.kind = "none"
    /\ env = NoEnv
    /\ last.key = <<"aws", Dot, "profile">>
    /\ last.args = <<PyStr("default")>>
    /\ last.val = PyNone
    /\ ConfigGet(config, <<"aws", Dot, "region">>, PyNone) = PyStr("us-east-1")
    /\ ConfigGet(config, <<"app", Dot, "debug">>, PyNone) = PyBool(FALSE)

----------------------------------------------------------------------------
(* C14..C16: the aws_config view.                                          *)

\* the paths aws_config reads, by the key it gives them
Credentials ==
    (K("aws_access_key_id") :> <<"aws", Dot, "access_key_id">>) @@
    (K("aws_secret_access_key") :> <<"aws", Dot, "secret_access_key">>) @@
    (K("aws_session_token") :> <<"aws", Dot, "session_token">>) @@
    (K("region_name") :> <<"aws", Dot, "region">>)

\* the path is in the tree with a value other than None
Defined(tree, path) ==
    PathPresent(tree, Split(path)) /\ ValueAt(tree, Split(path)) # PyNone

\* the view has no entry for a path that is None or absent, and no None
OmitsUndefined(tree, view) ==
    /\ \A k \in DOMAIN Credentials :
          ~Defined(tree, Credentials[k]) => k \notin DOMAIN view.m
    /\ \A k \in DOMAIN view.m : view.m[k] # PyNone

\* C14: aws_config has no entry for a credential path that is None in the
\* tree or absent from it, and no key of it maps to None: in every state the
\* property would return such a view, and every view it has returned is one.
C14_ViewOmitsUndefined ==
    /\ pc = "ready" => OmitsUndefined(config, AwsConfig(config))
    /\ Did("aws_config") => OmitsUndefined(before, last.val)

\* aws_config has returned a view with a region and without the session
\* token, which is None in the tree
C14_Witness ==
    /\ Did("aws_config")
    /\ PathPresent(before, Split(<<"aws", Dot, "session_token">>))
    /\ ValueAt(before, Split(<<"aws", Dot, "session_token">>)) = PyNone
    /\ K("aws_session_token") \notin DOMAIN last.val.m
    /\ K("region_name") \in DOMAIN last.val.m

\* aws_config has returned a view without a region, the section aws being no
\* mapping any more
C14_WitnessAbsent ==
    /\ Did("aws_config")
    /\ NotMapping(before, Split(<<"aws", Dot, "region">>))
    /\ last.val = EmptyDict

\* C15: every credential path that has a value other than None in the tree
\* has its entry in aws_config, the empty str, 0 and False included.
C15_ViewHasEveryDefined ==
    Did("aws_config")
        => \A k \in DOMAIN Credentials :
              Defined(before, Credentials[k])
                 => /\ k \in DOMAIN last.val.m
                    /\ last.val.m[k] = ValueAt(before, Split(Credentials[k]))

\* the part of C15 that holds: every credential path whose value is true in
\* a condition has its entry
C15_ViewHasEveryTruthy ==
    Did("aws_config")
        => \A k \in DOMAIN Credentials :
              (Defined(before, Credentials[k])
                 /\ Truthy(ValueAt(before, Split(Credentials[k]))))
                 => /\ k \in DOMAIN last.val.m
                    /\ last.val.m[k] = ValueAt(before, Split(Credentials[k]))

\* C16: the keys of aws_config are among aws_access_key_id,
\* aws_secret_access_key, aws_session_token and region_name, each with the
\* value get returns for its path; aws.profile has no entry.
C16_ViewKeysAndValues ==
    Did("aws_config")
        => /\ DOMAIN last.val.m \subseteq DOMAIN Credentials
           /\ \A k \in DOMAIN last.val.m :
                 last.val.m[k] = ConfigGet(before, Credentials[k], Nothing)

\* aws_config has returned the four entries in an environment that names a
\* profile too
C16_Witness ==
    /\ Did("aws_config")
    /\ Defined(before, <<"aws", Dot, "profile">>)
    /\ DOMAIN last.val.m = DOMAIN Credentials
    /\ last.val.m[K("aws_session_token")] = PyStr("token")
    /\ last.val.m[K("region_name")] = PyStr("ap-south-1")

----------------------------------------------------------------------------
(* C17: the dict to_dict returns.                                          *)

\* C17: an assignment into the dict to_dict returned, at the top level or in
\* a nested dict, changes the value of no later get.
C17_ReturnedDictIsDetached ==
    Did("modify")
        => \A key \in ConfigKeys \cup DictReads :
              ConfigGet(config, key, Nothing) = ConfigGet(before, key, Nothing)

\* the part of C17 that holds: an assignment at the top level of the returned
\* dict leaves the tree as it was
C17_TopLevelIsDetached ==
    (Did("modify") /\ Len(last.args[1]) = 1) => config = before

\* the part of C17 that holds: calls of get, aws_config and to_dict leave the
\* tree as it was
C17_ReadsKeepTree ==
    (pc = "ready" /\ last.op \in {"get", "aws_config", "to_dict"})
        => config = before

----------------------------------------------------------------------------
(* C18..C20: the managers.                                                 *)

\* the operations of the managers the model has, each forwarding to a call
\* of the client
Forwarding == {"list_buckets", "create_bucket", "upload_file", "list_instances"}

\* C18: a manager operation whose client call raised ClientError has raised
\* that very ClientError and returned nothing.
C18_ClientErrorPropagates ==
    (pc = "ready" /\ last.op \in Forwarding)
        => \A i \in 1..Len(sdk) :
              sdk[i].exc.type = "ClientError"
                 => /\ last.out = "raised"
                    /\ last.exc = sdk[i].exc
                    /\ last.val = PyNone

\* list_buckets has raised the AccessDenied ClientError of the client's
\* list_buckets, as in test_client_error_handling
C18_Witness ==
    /\ Did("list_buckets")
    /\ Len(sdk) = 1
    /\ sdk[1].call = "list_buckets"
    /\ sdk[1].exc = ClientError("AccessDenied", "ListBuckets")
    /\ last.out = "raised"
    /\ last.exc = ClientError("AccessDenied", "ListBuckets")

\* list_instances has raised the UnauthorizedOperation ClientError of the
\* client's describe_instances, as in test_list_instances_client_error
C18_WitnessEC2 ==
    /\ Did("list_instances")
    /\ sdk[1].call = "describe_instances"
    /\ sdk[1].exc = ClientError("UnauthorizedOperation", "DescribeInstances")
    /\ last.exc = ClientError("UnauthorizedOperation", "DescribeInstances")

\* the one client call create_bucket(bucket_name, ...) makes when its region
\* is `effective`
OneCreateBucketCall(bucket_name, effective) ==
    /\ Len(sdk) = 1
    /\ sdk[1].call = "create_bucket"
    /\ sdk[1].kwargs[K("Bucket")] = bucket_name
    /\ IF effective # PyStr("us-east-1")
       THEN /\ DOMAIN sdk[1].kwargs = {K("Bucket"), K("CreateBucketConfiguration")}
            /\ sdk[1].kwargs[K("CreateBucketConfiguration")] =
                   One("LocationConstraint", effective)
       ELSE DOMAIN sdk[1].kwargs = {K("Bucket")}

\* C19 as stated: create_bucket makes exactly one create_bucket call on the
\* client; its region is the region argument when one is given and aws.region
\* of the Config at the time of the call when none is; the call has
\* CreateBucketConfiguration = {LocationConstraint: region} exactly when the
\* region is not us-east-1.
C19_CreateBucketRegion ==
    Did("create_bucket")
        => OneCreateBucketCall(last.args[1],
              IF last.args[2] # PyNone THEN last.args[2]
              ELSE ConfigGet(before, <<"aws", Dot, "region">>, PyNone))

\* C19 as amended: create_bucket makes exactly one create_bucket call on the
\* client; its region is the region argument when one is given that is not
\* the empty str, and aws.region of the Config at the time of the call when
\* none or the empty str is given; the call has CreateBucketConfiguration =
\* {LocationConstraint: region} exactly when the region is not us-east-1.
C19_CreateBucketRegionUnlessEmpty ==
    Did("create_bucket")
        => OneCreateBucketCall(last.args[1],
              IF last.args[2] \notin {PyNone, PyStr("")} THEN last.args[2]
              ELSE ConfigGet(before, <<"aws", Dot, "region">>, PyNone))

\* create_bucket with no region, after set('aws.region', 'eu-west-1') on the
\* Config of a manager whose client was made for us-east-1: the call has the
\* LocationConstraint eu-west-1
C19_Witness ==
    /\ Did("create_bucket")
    /\ last.out = "returned"
    /\ last.args[2] = PyNone
    /\ K("region_name") \in DOMAIN clients["s3"].m
    /\ clients["s3"].m[K("region_name")] = PyStr("us-east-1")
    /\ ConfigGet(before, <<"aws", Dot, "region">>, PyNone) = PyStr("eu-west-1")
    /\ sdk[1].kwargs[K("CreateBucketConfiguration")] =
           One("LocationConstraint", PyStr("eu-west-1"))

\* create_bucket with the region us-east-1 on a Config whose aws.region is
\* another: the call has no CreateBucketConfiguration
C19_WitnessArgument ==
    /\ Did("create_bucket")
    /\ last.args[2] = PyStr("us-east-1")
    /\ ConfigGet(before, <<"aws", Dot, "region">>, PyNone) = PyStr("us-west-2")
    /\ DOMAIN sdk[1].kwargs = {K("Bucket")}

\* C20: upload_file of a local file that does not exist raises
\* FileNotFoundError and makes no upload_file call on the client.
C20_UploadMissingFileRaises ==
    (Did("upload_file") /\ last.args[1].s \notin LocalFiles)
        => /\ last.out = "raised"
           /\ last.exc.type = "FileNotFoundError"
           /\ \A i \in 1..Len(sdk) : sdk[i].call # "upload_file"

\* upload_file('/tmp/nonexistent.txt', 'test-bucket') has raised
\* FileNotFoundError and made no call, as in test_upload_file_not_found
C20_Witness ==
    /\ Did("upload_file")
    /\ last.args = <<PyStr("/tmp/nonexistent.txt"), PyStr("test-bucket"), PyNone, PyNone>>
    /\ last.exc = Exc("FileNotFoundError", "File not found: ", "/tmp/nonexistent.txt")
    /\ sdk = <<>>

----------------------------------------------------------------------------
(* C24..C28: what get returns for None, app.debug, and the frames of get,  *)
(* aws_config and set.                                                     *)

\* C24: get(p, d) on a path p that is in the tree returns the value stored
\* there, the stored None too: the default d stands in for absent paths only.
C24_GetReturnsStoredNone ==
    (Did("get") /\ PathPresent(before, Split(last.key)))
        => /\ last.out = "returned"
           /\ last.val = ValueAt(before, Split(last.key))
           /\ ValueAt(before, Split(last.key)) = PyNone => last.val = PyNone

\* get('aws.region', 'default') on a tree that holds None at aws.region has
\* returned None
C24_Witness ==
    /\ Did("get")
    /\ PathPresent(before, Split(last.key))
    /\ ValueAt(before, Split(last.key)) = PyNone
    /\ last.args = <<PyStr("default")>>
    /\ last.val = PyNone

\* the texts that equal 'true' when the case of their letters is ignored
TrueTexts == {"true", "TRUE", "True", "tRuE"}

\* C25: after Config() with no file, app.debug is a bool: True exactly when
\* DEBUG is set to a text that is 'true' up to the case of its letters, False
\* for every other text and when DEBUG is unset.
C25_DebugIsBool ==
    (pc = "ready" /\ file.kind = "none")
        => /\ PathPresent(config, Split(<<"app", Dot, "debug">>))
           /\ ValueAt(config, Split(<<"app", Dot, "debug">>)) =
                  PyBool(env["DEBUG"] # Unset /\ env["DEBUG"][1] \in TrueTexts)

\* DEBUG=TRUE: get('app.debug') has returned True
C25_Witness ==
    /\ Did("get")
    /\ file.kind = "none"
    /\ last.key = <<"app", Dot, "debug">>
    /\ env["DEBUG"] = <<"TRUE">>
    /\ last.val = PyBool(TRUE)

\* DEBUG=1: get('app.debug') has returned False
C25_WitnessOtherText ==
    /\ Did("get")
    /\ file.kind = "none"
    /\ last.key = <<"app", Dot, "debug">>
    /\ env["DEBUG"] = <<"1">>
    /\ last.val = PyBool(FALSE)

\* C26: get and aws_config leave the tree as it was: each call does, a get of
\* an absent path included, and so the tree is the one construction built as
\* long as nothing but get and aws_config has been called.
C26_ReadsLeaveTree ==
    /\ (Did("get") \/ Did("aws_config")) => config = before
    /\ (pc = "ready" /\ writes = 0) => config = ConfigInit(env, dotenv, file).config

\* a get with a default of a path of several segments whose first segment is
\* no key of the tree: it has returned the default and the tree has no such
\* key
C26_Witness ==
    /\ Did("get")
    /\ Len(Split(last.key)) > 1
    /\ last.args = <<PyStr("default")>>
    /\ last.val = PyStr("default")
    /\ Split(last.key)[1] \notin DOMAIN config.m
    /\ config = before

\* neither of the two paths is a prefix of the other
Unrelated(p, q) ==
    LET n == IF Len(p) < Len(q) THEN Len(p) ELSE Len(q)
    IN  SubSeq(p, 1, n) # SubSeq(q, 1, n)

\* C27: a set(p, v) that returned has changed the value of get(q) for no
\* path q such that neither of p and q is a prefix of the other.
C27_SetFrame ==
    (Did("set") /\ last.out = "returned")
        => \A q \in Paths, default \in {PyNone, PyStr("default")} :
              Unrelated(Split(last.key), Split(q))
                 => ConfigGet(config, q, default) = ConfigGet(before, q, default)

\* a set that returned, of a path of several segments below a dict that
\* holds the value of another path, which is still there
C27_Witness ==
    /\ Did("set")
    /\ last.out = "returned"
    /\ config # before
    /\ Len(Split(last.key)) > 1
    /\ \E q \in Paths :
          /\ Unrelated(Split(last.key), Split(q))
          /\ Split(q)[1] = Split(last.key)[1]
          /\ PathPresent(before, Split(q))
          /\ ValueAt(before, Split(q)) # PyNone
          /\ ConfigGet(config, q, PyNone) = ValueAt(before, Split(q))

\* C28: a set(p, v) that raised has left the tree as it was: no dict made on
\* the way, no value written.
C28_FailedSetLeavesTree ==
    (Did("set") /\ last.out = "raised") => config = before

\* set of a path of three segments whose second resolves to a str: it has
\* raised TypeError and the tree is as before
C28_Witness ==
    /\ Did("set")
    /\ last.out = "raised"
    /\ last.exc.type = "TypeError"
    /\ Len(Split(last.key)) = MaxSegs
    /\ NotMapping(before, Split(last.key))
    /\ config = before

----------------------------------------------------------------------------
(* C29: what the merge does to its overlay.                                *)

\* C29: _merge_config(base, overlay) leaves the overlay, at every level, as
\* it was given.
C29_MergeLeavesOverlay ==
    Did("merge") => last.left = last.args

\* the base that MergeArgs computes is the base of MergeConfig
C29_MergeArgsAgree ==
    Did("merge")
        => config = PyDict(MergeArgs(before.m, last.args[1].m,
                                     DOMAIN last.args[1].m).base)

\* a merge that went into a dict of the overlay and wrote the tree below it
C29_Witness ==
    /\ Did("merge")
    /\ last.out = "returned"
    /\ config # before
    /\ \E k \in DOMAIN last.args[1].m :
          /\ IsDict(last.args[1].m[k])
          /\ k \in DOMAIN before.m
          /\ IsDict(before.m[k])
          /\ DOMAIN before.m[k].m \ DOMAIN last.args[1].m[k].m # {}
          /\ config.m[k] # before.m[k]
    /\ last.left = last.args

----------------------------------------------------------------------------
(* C21..C23: the object operations of S3Manager and create_instance.       *)

\* the positions in the calls of the last operation of the client method
\* `name`
Calls(name) == {i \in 1..Len(sdk) : sdk[i].call = name}

\* the key is one delete_all_objects(bucket_name, prefix) is to delete
Matches(key, prefix) == ~Truthy(prefix) \/ StartsWith(key, prefix)

\* the number of keys of the bucket, as the last call found it, that
\* delete_all_objects(bucket_name, prefix) is to delete
Matching(prefix) ==
    Len(SelectSeq(bucket.before, LAMBDA key : Matches(key, prefix)))

\* C21: after delete_all_objects(bucket_name, prefix) returned, the bucket
\* holds no object whose key starts with prefix (no object at all when no
\* prefix is given), however many it held, and the integer returned is the
\* number of objects removed.
C21_DeleteAllObjectsEmpties ==
    (Did("delete_all_objects") /\ last.out = "returned") =>
        /\ \A i \in 1..Len(bucket.objects) : ~Matches(bucket.objects[i], last.args[2])
        /\ last.val = PyInt(Len(bucket.before) - Len(bucket.objects))

\* the part of C21 that holds: the integer returned is the number of objects
\* removed, and a bucket with no more matching keys than one page of
\* list_objects is left without any
C21_OnePageIsEmptied ==
    (Did("delete_all_objects") /\ last.out = "returned") =>
        /\ last.val = PyInt(Len(bucket.before) - Len(bucket.objects))
        /\ Matching(last.args[2]) <= DefaultMaxKeys =>
              \A i \in 1..Len(bucket.objects) :
                  ~Matches(bucket.objects[i], last.args[2])

\* delete_all_objects returned from a bucket of more keys than one page
C21_BeyondOnePage ==
    /\ Did("delete_all_objects")
    /\ last.out = "returned"
    /\ Matching(last.args[2]) > DefaultMaxKeys
    /\ bucket.objects # <<>>

C22_WitnessFailure ==
    /\ Did("delete_bucket")
    /\ last.args[2] = PyBool(TRUE)
    /\ \E i \in Calls("delete_objects") : sdk[i].exc # NoExc
    /\ bucket.exists

\* delete_bucket(force=False) made its one call
C22_WitnessNoForce ==
    /\ Did("delete_bucket")
    /\ last.args[2] = PyBool(FALSE)
    /\ Len(sdk) = 1

\* C23: create_instance calls run_instances once, first; when that returned
\* it calls create_tags once, on the id of the new instance, if the tags given
\* are a non-empty mapping, and makes no other call if they are not; a
\* ClientError of create_tags is raised from create_instance, which makes no
\* call to undo the launch.
C23_CreateInstanceCalls ==
    Did("create_instance") =>
        /\ Calls("run_instances") = {1}
        /\ \A i \in 1..Len(sdk) : sdk[i].call \in {"run_instances", "create_tags"}
        /\ IF sdk[1].exc # NoExc
           THEN Len(sdk) = 1 /\ last.exc = sdk[1].exc
           ELSE IF Truthy(last.args[7])
           THEN /\ Len(sdk) = 2
                /\ sdk[2].call = "create_tags"
                /\ sdk[2].kwargs[K("Resources")] = PyList(<<NewInstanceId>>)
                /\ last.exc = sdk[2].exc
                /\ last.out = "returned" => last.val.m[K("InstanceId")] = NewInstanceId
           ELSE Len(sdk) = 1 /\ last.out = "returned"

\* create_instance launched an instance, and the create_tags call for it
\* raised
C23_Witness ==
    /\ Did("create_instance")
    /\ Len(sdk) = 2
    /\ sdk[1].exc = NoExc
    /\ sdk[2].exc.type = "ClientError"
    /\ last.exc = sdk[2].exc

\* create_instance launched and tagged an instance
C23_WitnessTagged ==
    /\ Did("create_instance")
    /\ Len(sdk) = 2
    /\ last.out = "returned"

\* create_instance with tags {} launched an instance
C23_WitnessEmptyTags ==
    /\ Did("create_instance")
    /\ last.args[7] = EmptyDict
    /\ last.out = "returned"

----------------------------------------------------------------------------
(* C30: get_logger.                                                        *)

\* no logger has more than one handler
C30_AtMostOneHandler == \A name \in DOMAIN loggers : Len(loggers[name].handlers) <= 1

\* get_logger(name, level) with the name of a level, in any case, has set the
\* logger to that level
C30_LevelIsSet ==
    (/\ last.op = "get_logger"
     /\ last.args[2].t = "str"
     /\ Upper(last.args[2].s) \in LevelNames) =>
        /\ last.out = "returned"
        /\ loggers[last.args[1].s].level = LoggingLevels[Upper(last.args[2].s)]

\* a step that is get_logger(name) with no level, on a logger with a handler,
\* keeps the level of the logger
C30_LevelIsKept ==
    \A name \in DOMAIN loggers :
        (/\ loggers[name].handlers # <<>>
         /\ last'.op = "get_logger"
         /\ last'.args[1] = PyStr(name)
         /\ ~Truthy(last'.args[2])) =>
            loggers'[name].level = loggers[name].level

\* C30: whatever get_logger calls were made, no logger has more than one
\* handler; a call with a level has set the logger to that level; a call
\* without a level on a logger that has a handler leaves its level as it was.
C30_GetLogger == [](C30_AtMostOneHandler /\ C30_LevelIsSet) /\ [][C30_LevelIsKept]_vars

\* get_logger(name) without a level has just been called on a logger that
\* an earlier call gave a handler and a level other than INFO
C30_Witness ==
    /\ last.op = "get_logger"
    /\ last.args[2] = PyNone
    /\ Len(loggers[last.args[1].s].handlers) = 1
    /\ loggers[last.args[1].s].level = LoggingLevels["ERROR"]

====
